---- MODULE Spec2Model ----
(***************************************************************************)
(* A model of the chunk verifier of the pdf-chunker plugin                 *)
(* (scripts/verify_chunks.py): the loader, the schema validator, the       *)
(* structural validator, the report aggregate and the command line's exit  *)
(* status.                                                                 *)
(*                                                                         *)
(* JSON values are tagged records [t |-> tag, v |-> payload]:              *)
(*   "null" (payload 0), "int" (an integer), "str" (a string),             *)
(*   "list" (a sequence of JSON values),                                   *)
(*   "obj"  (a function from key strings to JSON values; its DOMAIN is the *)
(*           set of keys present, so `k in d` is k \in DOMAIN d.v).        *)
(***************************************************************************)
EXTENDS Integers, Sequences, FiniteSets, TLC

(***************************************************************************)
(* JSON values and the dict / isinstance primitives the validators use     *)
(***************************************************************************)
Null == [t |-> "null", v |-> 0]
JInt(n) == [t |-> "int", v |-> n]
JStr(s) == [t |-> "str", v |-> s]
JList(q) == [t |-> "list", v |-> q]
JObj(f) == [t |-> "obj", v |-> f]
EmptyObj == JObj(<<>>)

IsNone(j) == j.t = "null"
IsDict(j) == j.t = "obj"
IsList(j) == j.t = "list"
IsIntJ(j) == j.t = "int"
IsStrJ(j) == j.t = "str"

\* k in d  (d a JSON object)
HasKey(d, k) == k \in DOMAIN d.v
\* d.get(k)  and  d.get(k, dflt)
Get(d, k) == IF k \in DOMAIN d.v THEN d.v[k] ELSE Null
GetD(d, k, dflt) == IF k \in DOMAIN d.v THEN d.v[k] ELSE dflt

\* Python truthiness of a JSON value (if x: ...)
Truthy(j) ==
    CASE j.t = "null" -> FALSE
      [] j.t = "int" -> j.v # 0
      [] j.t = "str" -> j.v # ""
      [] j.t = "list" -> Len(j.v) > 0
      [] OTHER -> DOMAIN j.v # {}

\* the decimal rendering of a list index inside a finding's field name
IdxStr(i) == <<"0", "1", "2", "3", "4", "5", "6", "7", "8", "9">>[i + 1]

RECURSIVE FlatMap(_, _)
\* the concatenation of F[1], ..., F[n] for a sequence F of sequences
FlatMap(F, n) == IF n = 0 THEN <<>> ELSE FlatMap(F, n - 1) \o F[n]

\* a == b on JSON scalars (values of different JSON types are never equal)
JEq(a, b) == a.t = b.t /\ a.v = b.v

(***************************************************************************)
(* Schema constants (verify_chunks.py, lines 31-53)                        *)
(***************************************************************************)
REQUIRED_CHUNK_FIELDS ==
    << "id", "chunk_id", "doc_id", "section_index", "chunk_seq",
       "section_id", "chunk_type", "section_path", "section_title",
       "page_start", "page_end", "locators", "context_prefix", "text",
       "split",
       "prev_chunk_id", "next_chunk_id",
       "images", "tables", "tables_data", "references", "equations",
       "keywords" >>

VALID_CHUNK_TYPES == {"section", "table", "image_caption", "micro", "intro"}

REQUIRED_SPLIT_FIELDS == <<"group_id", "split_index", "split_total", "logical_range">>

REQUIRED_LOCATOR_SPAN_FIELDS ==
    <<"source_pdf", "pdf_page_start", "pdf_page_end", "doc_page_start", "doc_page_end">>

\* a variant of REQUIRED_REFERENCE_FIELDS that also demands target_norm
REQUIRED_REFERENCE_FIELDS_with_target_norm == <<"target", "type", "target_norm">>

REQUIRED_REFERENCE_FIELDS == <<"target", "type">>

VALID_REFERENCE_TYPES == {"internal", "cross_part", "external"}

VALID_RELATION_TYPES == {"requires", "defines", "restricts", "exempts", "supplements"}

VALID_ENTITY_TYPES ==
    {"ship_type", "structural_member", "equipment", "material", "inspection",
     "load_condition", "parameter"}

\* x in S for a JSON value x and a set S of Python strings
InStrSet(j, S) == j.t = "str" /\ j.v \in S

(* a list or a dict has no hash: `x in <set>`, <set>.add(x), Counter and   *)
(* dict keys raise TypeError on it.                                        *)
Unhashable(j) == j.t \in {"list", "obj"}

(***************************************************************************)
(* SchemaError: one schema finding.  `error` is a short tag for the        *)
(* message text; severity defaults to "error".                             *)
(***************************************************************************)
SchemaError(chunk, fld, err, sev) ==
    [ chunk_seq |-> GetD(chunk, "chunk_seq", JInt(-1)),
      chunk_id  |-> GetD(chunk, "chunk_id", JStr("?")),
      field     |-> fld,
      error     |-> err,
      severity  |-> sev ]

\* the findings for the names of `names` (a sequence) that are not keys of d
MissingKeys(chunk, d, names, prefix, sev) ==
    FlatMap([k \in 1..Len(names) |->
                IF HasKey(d, names[k]) THEN <<>>
                ELSE <<SchemaError(chunk, prefix \o names[k], "missing", sev)>>],
            Len(names))

(***************************************************************************)
(* verify_schema, one operator per block of the per-chunk loop body        *)
(***************************************************************************)

\* required chunk fields: `fld not in chunk` (a key holding null is present)
RequiredFieldErrors(chunk) ==
    MissingKeys(chunk, chunk, REQUIRED_CHUNK_FIELDS, "", "error")

\* chunk_type must be one of VALID_CHUNK_TYPES when it is not None
ChunkTypeErrors(chunk) ==
    LET ct == Get(chunk, "chunk_type")
    IN  IF ~IsNone(ct) /\ ~InStrSet(ct, VALID_CHUNK_TYPES)
        THEN <<SchemaError(chunk, "chunk_type", "invalid", "error")>>
        ELSE <<>>

\* one span of locators.spans: an object holding the five span fields
SpanErrors(chunk, span, i) ==
    IF ~IsDict(span)
    THEN <<SchemaError(chunk, "locators.spans[" \o IdxStr(i) \o "]", "not_object", "error")>>
    ELSE MissingKeys(chunk, span, REQUIRED_LOCATOR_SPAN_FIELDS,
                     "locators.spans[" \o IdxStr(i) \o "].", "error")

\* locators: an object with a non-empty list `spans` (skipped when None)
LocatorsErrors(chunk) ==
    LET locators == Get(chunk, "locators")
    IN  IF IsNone(locators) THEN <<>>
        ELSE IF ~IsDict(locators)
        THEN <<SchemaError(chunk, "locators", "not_object", "error")>>
        ELSE IF ~HasKey(locators, "spans")
        THEN <<SchemaError(chunk, "locators.spans", "missing", "error")>>
        ELSE LET spans == locators.v["spans"]
             IN  IF ~IsList(spans) \/ Len(spans.v) = 0
                 THEN <<SchemaError(chunk, "locators.spans", "not_nonempty_list", "error")>>
                 ELSE FlatMap([i \in 1..Len(spans.v) |->
                                  SpanErrors(chunk, spans.v[i], i - 1)],
                              Len(spans.v))

\* `key in s` raises TypeError when s is not a container (an int, None)
SpanTestRaises(s) == s.t \in {"int", "null"}

RECURSIVE SpanValues(_, _, _)
\* [s[key] for s in spans[1..n] if key in s]: only an object can hold the key
SpanValues(spans, key, n) ==
    IF n = 0 THEN <<>>
    ELSE SpanValues(spans, key, n - 1)
         \o (IF IsDict(spans[n]) /\ HasKey(spans[n], key)
             THEN <<spans[n].v[key]>> ELSE <<>>)

AllInts(vals) == \A i \in 1..Len(vals) : IsIntJ(vals[i])
MinOf(vals) == CHOOSE m \in {vals[i].v : i \in 1..Len(vals)} :
                   \A i \in 1..Len(vals) : m <= vals[i].v
MaxOf(vals) == CHOOSE m \in {vals[i].v : i \in 1..Len(vals)} :
                   \A i \in 1..Len(vals) : m >= vals[i].v

(* min(...) / max(...) over the generator, inside the try block:           *)
(* raises ValueError on no value and TypeError on a span that is no        *)
(* container or on values that cannot be ordered; a single value is        *)
(* returned as it is.                                                      *)
SpanExtremum(spans, key, wantMin) ==
    LET vals == SpanValues(spans, key, Len(spans))
    IN  IF \E i \in 1..Len(spans) : SpanTestRaises(spans[i])
        THEN [raised |-> TRUE, val |-> Null]
        ELSE IF Len(vals) = 0 THEN [raised |-> TRUE, val |-> Null]
        ELSE IF AllInts(vals)
        THEN [raised |-> FALSE,
              val |-> JInt(IF wantMin THEN MinOf(vals) ELSE MaxOf(vals))]
        ELSE IF Len(vals) = 1 THEN [raised |-> FALSE, val |-> vals[1]]
        ELSE [raised |-> TRUE, val |-> Null]

(* a variant of PageMismatchErrors with `elif` for the second comparison:  *)
(* page_end is compared only when page_start gave no finding.              *)
PageMismatchErrors_elif(chunk, expected_page_start, expected_page_end) ==
    LET actual_ps == Get(chunk, "page_start")
        actual_pe == Get(chunk, "page_end")
    IN  IF ~IsNone(actual_ps) /\ ~JEq(actual_ps, expected_page_start)
        THEN <<SchemaError(chunk, "page_start", "derived_mismatch", "error")>>
        ELSE IF ~IsNone(actual_pe) /\ ~JEq(actual_pe, expected_page_end)
        THEN <<SchemaError(chunk, "page_end", "derived_mismatch", "error")>>
        ELSE <<>>

\* the body of the try block, once both extrema were computed
PageMismatchErrors(chunk, expected_page_start, expected_page_end) ==
    LET actual_ps == Get(chunk, "page_start")
        actual_pe == Get(chunk, "page_end")
    IN  (IF ~IsNone(actual_ps) /\ ~JEq(actual_ps, expected_page_start)
         THEN <<SchemaError(chunk, "page_start", "derived_mismatch", "error")>>
         ELSE <<>>)
        \o
        (IF ~IsNone(actual_pe) /\ ~JEq(actual_pe, expected_page_end)
         THEN <<SchemaError(chunk, "page_end", "derived_mismatch", "error")>>
         ELSE <<>>)

(* page_start / page_end against the span-derived min / max.  Both extrema *)
(* are computed first inside one try block; `except (ValueError,           *)
(* TypeError): pass` drops both comparisons when either computation raises.*)
PageErrors(chunk) ==
    LET locators == Get(chunk, "locators")
    IN  IF IsNone(locators) \/ ~IsDict(locators) THEN <<>>
        ELSE LET spans == GetD(locators, "spans", JList(<<>>))
             IN  IF ~(IsList(spans) /\ Len(spans.v) > 0) THEN <<>>
                 ELSE LET lo == SpanExtremum(spans.v, "doc_page_start", TRUE)
                          hi == SpanExtremum(spans.v, "doc_page_end", FALSE)
                      IN  IF lo.raised \/ hi.raised THEN <<>>
                          ELSE PageMismatchErrors(chunk, lo.val, hi.val)

\* split: None, or an object with the four split fields and 0 <= index < total
SplitErrors(chunk) ==
    LET split == Get(chunk, "split")
    IN  IF IsNone(split) THEN <<>>
        ELSE IF ~IsDict(split)
        THEN <<SchemaError(chunk, "split", "not_object_or_null", "error")>>
        ELSE MissingKeys(chunk, split, REQUIRED_SPLIT_FIELDS, "split.", "error")
             \o LET si == Get(split, "split_index")
                    st == Get(split, "split_total")
                IN  IF IsIntJ(si) /\ IsIntJ(st) /\ (si.v < 0 \/ si.v >= st.v)
                    THEN <<SchemaError(chunk, "split.split_index", "out_of_range", "error")>>
                    ELSE <<>>

\* one entry of references
ReferenceErrors(chunk, ref, i) ==
    IF ~IsDict(ref)
    THEN <<SchemaError(chunk, "references[" \o IdxStr(i) \o "]", "not_object", "error")>>
    ELSE MissingKeys(chunk, ref, REQUIRED_REFERENCE_FIELDS,
                     "references[" \o IdxStr(i) \o "].", "error")
         \o (LET rtype == Get(ref, "type")
             IN  IF Truthy(rtype) /\ ~InStrSet(rtype, VALID_REFERENCE_TYPES)
                 THEN <<SchemaError(chunk, "references[" \o IdxStr(i) \o "].type",
                                    "invalid", "error")>>
                 ELSE <<>>)
         \o (LET rel == Get(ref, "relation")
             IN  IF ~IsNone(rel) /\ ~InStrSet(rel, VALID_RELATION_TYPES)
                 THEN <<SchemaError(chunk, "references[" \o IdxStr(i) \o "].relation",
                                    "invalid", "warning")>>
                 ELSE <<>>)
         \o (LET tnorm == Get(ref, "target_norm")
             IN  IF IsDict(tnorm) /\ \E k \in DOMAIN tnorm.v : IsNone(tnorm.v[k])
                 THEN <<SchemaError(chunk, "references[" \o IdxStr(i) \o "].target_norm",
                                    "null_keys", "warning")>>
                 ELSE <<>>)

\* a variant of ReferencesErrors that reports a null references value as an error
ReferencesErrors_null_is_error(chunk) ==
    LET refs == GetD(chunk, "references", JList(<<>>))
    IN  IF IsList(refs)
        THEN FlatMap([i \in 1..Len(refs.v) |-> ReferenceErrors(chunk, refs.v[i], i - 1)],
                     Len(refs.v))
        ELSE IF IsNone(refs)
        THEN <<SchemaError(chunk, "references", "null", "error")>>
        ELSE <<>>

\* references: checked only when it is a list (default [])
ReferencesErrors(chunk) ==
    LET refs == GetD(chunk, "references", JList(<<>>))
    IN  IF IsList(refs)
        THEN FlatMap([i \in 1..Len(refs.v) |-> ReferenceErrors(chunk, refs.v[i], i - 1)],
                     Len(refs.v))
        ELSE <<>>

\* section_path: a non-empty list when it is not None
SectionPathErrors(chunk) ==
    LET sp == Get(chunk, "section_path")
    IN  IF ~IsNone(sp) /\ (~IsList(sp) \/ Len(sp.v) = 0)
        THEN <<SchemaError(chunk, "section_path", "not_nonempty_list", "error")>>
        ELSE <<>>

\* keywords: a list when it is not None; an empty list only warns
KeywordsErrors(chunk) ==
    LET kw == Get(chunk, "keywords")
    IN  IF IsNone(kw) THEN <<>>
        ELSE IF ~IsList(kw)
        THEN <<SchemaError(chunk, "keywords", "not_list", "error")>>
        ELSE IF Len(kw.v) = 0
        THEN <<SchemaError(chunk, "keywords", "empty", "warning")>>
        ELSE <<>>

\* one entry of ontology_keywords
OntologyKeywordErrors(chunk, item, j) ==
    IF ~IsDict(item)
    THEN <<SchemaError(chunk, "ontology_keywords[" \o IdxStr(j) \o "]", "not_object", "warning")>>
    ELSE IF ~HasKey(item, "mention") \/ ~HasKey(item, "type")
    THEN <<SchemaError(chunk, "ontology_keywords[" \o IdxStr(j) \o "]", "missing", "warning")>>
    ELSE IF ~InStrSet(Get(item, "type"), VALID_ENTITY_TYPES)
    THEN <<SchemaError(chunk, "ontology_keywords[" \o IdxStr(j) \o "]", "invalid", "warning")>>
    ELSE <<>>

OntologyKeywordsErrors(chunk) ==
    LET ok == Get(chunk, "ontology_keywords")
    IN  IF IsNone(ok) THEN <<>>
        ELSE IF ~IsList(ok)
        THEN <<SchemaError(chunk, "ontology_keywords", "not_list", "warning")>>
        ELSE FlatMap([j \in 1..Len(ok.v) |-> OntologyKeywordErrors(chunk, ok.v[j], j - 1)],
                     Len(ok.v))

\* the characters str.strip() removes
Whitespace == {" ", "\n", "\t"}

\* len(text.strip()) == 0, text a sequence of characters
IsBlank(chars) == \A i \in 1..Len(chars) : chars[i] \in Whitespace

\* text: a string that is not blank, when it is not None
TextErrors(chunk) ==
    LET text == Get(chunk, "text")
    IN  IF ~IsNone(text) /\ (~IsStrJ(text) \/ IsBlank(text.v))
        THEN <<SchemaError(chunk, "text", "not_nonempty_string", "error")>>
        ELSE <<>>

\* the retired embedding field only warns
EmbeddingErrors(chunk) ==
    IF HasKey(chunk, "embedding")
    THEN <<SchemaError(chunk, "embedding", "retired", "warning")>>
    ELSE <<>>

\* one entry of domain_entities
DomainEntityErrors(chunk, ent, i) ==
    IF ~IsDict(ent)
    THEN <<SchemaError(chunk, "domain_entities[" \o IdxStr(i) \o "]", "not_object", "warning")>>
    ELSE MissingKeys(chunk, ent, <<"mention", "canonical", "type">>,
                     "domain_entities[" \o IdxStr(i) \o "].", "warning")
         \o (LET etype == Get(ent, "type")
             IN  IF Truthy(etype) /\ ~InStrSet(etype, VALID_ENTITY_TYPES)
                 THEN <<SchemaError(chunk, "domain_entities[" \o IdxStr(i) \o "].type",
                                    "invalid", "warning")>>
                 ELSE <<>>)

DomainEntitiesErrors(chunk) ==
    LET de == Get(chunk, "domain_entities")
    IN  IF IsNone(de) THEN <<>>
        ELSE IF ~IsList(de)
        THEN <<SchemaError(chunk, "domain_entities", "not_list", "warning")>>
        ELSE FlatMap([i \in 1..Len(de.v) |-> DomainEntityErrors(chunk, de.v[i], i - 1)],
                     Len(de.v))

ApplicabilityErrors(chunk) ==
    LET appl == Get(chunk, "applicability")
    IN  IF ~IsNone(appl) /\ ~IsDict(appl)
        THEN <<SchemaError(chunk, "applicability", "not_object_or_null", "warning")>>
        ELSE <<>>

NormativeValuesErrors(chunk) ==
    LET nv == Get(chunk, "normative_values")
    IN  IF ~IsNone(nv) /\ ~IsList(nv)
        THEN <<SchemaError(chunk, "normative_values", "not_list", "warning")>>
        ELSE <<>>

\* a table chunk without table_oversized only warns
TableOversizedErrors(chunk) ==
    IF JEq(Get(chunk, "chunk_type"), JStr("table")) /\ ~HasKey(chunk, "table_oversized")
    THEN <<SchemaError(chunk, "table_oversized", "missing", "warning")>>
    ELSE <<>>

RECURSIVE KeysInOrder(_)
\* the keys of an object as a sequence (the order of td.items())
KeysInOrder(S) ==
    IF S = {} THEN <<>>
    ELSE LET k == CHOOSE x \in S : TRUE IN <<k>> \o KeysInOrder(S \ {k})

\* a variant of TableDataErrors that reports a value that is no object
TableDataErrors_flagging_non_object(chunk, tname, tdata) ==
    IF ~IsDict(tdata)
    THEN <<SchemaError(chunk, "tables_data." \o tname, "not_object", "error")>>
    ELSE MissingKeys(chunk, tdata, <<"title", "columns", "rows">>,
                     "tables_data." \o tname \o ".", "error")

\* one table of tables_data: a value that is no object is passed over
TableDataErrors(chunk, tname, tdata) ==
    IF ~IsDict(tdata) THEN <<>>
    ELSE MissingKeys(chunk, tdata, <<"title", "columns", "rows">>,
                     "tables_data." \o tname \o ".", "error")

\* tables_data: an object; null (key present) only warns
TablesDataErrors(chunk) ==
    LET td == Get(chunk, "tables_data")
    IN  IF ~IsNone(td)
        THEN IF ~IsDict(td)
             THEN <<SchemaError(chunk, "tables_data", "not_object", "error")>>
             ELSE LET names == KeysInOrder(DOMAIN td.v)
                  IN  FlatMap([k \in 1..Len(names) |->
                                  TableDataErrors(chunk, names[k], td.v[names[k]])],
                              Len(names))
        ELSE IF HasKey(chunk, "tables_data")
        THEN <<SchemaError(chunk, "tables_data", "null", "warning")>>
        ELSE <<>>

\* one entry of equations
EquationErrors(chunk, eq, i) ==
    IF ~IsDict(eq)
    THEN <<SchemaError(chunk, "equations[" \o IdxStr(i) \o "]", "not_object", "error")>>
    ELSE MissingKeys(chunk, eq, <<"name", "symbol", "expression">>,
                     "equations[" \o IdxStr(i) \o "].", "error")

\* equations: a list; null (key present) only warns
EquationsErrors(chunk) ==
    LET eqs == Get(chunk, "equations")
    IN  IF ~IsNone(eqs)
        THEN IF ~IsList(eqs)
             THEN <<SchemaError(chunk, "equations", "not_list", "error")>>
             ELSE FlatMap([i \in 1..Len(eqs.v) |-> EquationErrors(chunk, eqs.v[i], i - 1)],
                          Len(eqs.v))
        ELSE IF HasKey(chunk, "equations")
        THEN <<SchemaError(chunk, "equations", "null", "warning")>>
        ELSE <<>>

\* the findings of one iteration of `for chunk in chunks`, in the code's order
ChunkSchemaErrors(chunk) ==
    RequiredFieldErrors(chunk) \o ChunkTypeErrors(chunk) \o LocatorsErrors(chunk)
    \o PageErrors(chunk) \o SplitErrors(chunk) \o ReferencesErrors(chunk)
    \o SectionPathErrors(chunk) \o KeywordsErrors(chunk)
    \o OntologyKeywordsErrors(chunk) \o TextErrors(chunk) \o EmbeddingErrors(chunk)
    \o DomainEntitiesErrors(chunk) \o ApplicabilityErrors(chunk)
    \o NormativeValuesErrors(chunk) \o TableOversizedErrors(chunk)
    \o TablesDataErrors(chunk) \o EquationsErrors(chunk)

(* the membership tests against the VALID_* sets raise TypeError on an     *)
(* unhashable value: chunk_type, references[i].type and .relation,         *)
(* ontology_keywords[j].type, domain_entities[i].type.                     *)
ChunkSchemaRaises(chunk) ==
    \/ Unhashable(Get(chunk, "chunk_type"))
    \/ LET refs == GetD(chunk, "references", JList(<<>>))
       IN  IsList(refs) /\ \E i \in 1..Len(refs.v) :
               /\ IsDict(refs.v[i])
               /\ \/ Truthy(Get(refs.v[i], "type")) /\ Unhashable(Get(refs.v[i], "type"))
                  \/ Unhashable(Get(refs.v[i], "relation"))
    \/ LET ok == Get(chunk, "ontology_keywords")
       IN  IsList(ok) /\ \E j \in 1..Len(ok.v) :
               /\ IsDict(ok.v[j])
               /\ HasKey(ok.v[j], "mention") /\ HasKey(ok.v[j], "type")
               /\ Unhashable(Get(ok.v[j], "type"))
    \/ LET de == Get(chunk, "domain_entities")
       IN  IsList(de) /\ \E i \in 1..Len(de.v) :
               /\ IsDict(de.v[i])
               /\ Truthy(Get(de.v[i], "type")) /\ Unhashable(Get(de.v[i], "type"))

\* data.get("chunks", [])
ChunksOf(data) == GetD(data, "chunks", JList(<<>>)).v

\* verify_schema: the findings appended to report.schema_errors
verify_schema(data) ==
    LET chunks == ChunksOf(data)
    IN  FlatMap([i \in 1..Len(chunks) |-> ChunkSchemaErrors(chunks[i])], Len(chunks))

(***************************************************************************)
(* verify_structure                                                        *)
(***************************************************************************)

(* StructureError: one structural finding.  The message text is kept as    *)
(* its two variable parts: `subject` (the JSON value the message names: a  *)
(* chunk_seq, a group id, a section id, a chunk id) and `detail` (the list *)
(* of integers the message prints).                                        *)
StructureError(error_type, subject, detail, severity) ==
    [ error_type |-> error_type, subject |-> subject,
      detail |-> detail, severity |-> severity ]

\* the number of chunks of chunks[1..n] whose c.get("chunk_seq") equals val
RECURSIVE CountSeq(_, _, _)
CountSeq(chunks, val, n) ==
    IF n = 0 THEN 0
    ELSE CountSeq(chunks, val, n - 1)
         + (IF JEq(Get(chunks[n], "chunk_seq"), val) THEN 1 ELSE 0)

\* Counter(...) raises TypeError on a chunk_seq without a hash
CounterRaises(chunks) ==
    \E i \in 1..Len(chunks) : Unhashable(Get(chunks[i], "chunk_seq"))

(* a variant of DuplicateSeqErrors that walks the chunks instead of the     *)
(* Counter: one finding per occurrence of a repeated value.                *)
DuplicateSeqErrors_per_occurrence(chunks) ==
    FlatMap([i \in 1..Len(chunks) |->
                LET seq == Get(chunks[i], "chunk_seq")
                    count == CountSeq(chunks, seq, Len(chunks))
                IN  IF count > 1
                    THEN <<StructureError("duplicate_seq", seq, <<count>>, "error")>>
                    ELSE <<>>],
            Len(chunks))

(* Counter(c.get("chunk_seq") for c in chunks), walked in insertion order: *)
(* one duplicate_seq finding per value that occurs more than once.         *)
DuplicateSeqErrors(chunks) ==
    FlatMap([i \in 1..Len(chunks) |->
                LET seq == Get(chunks[i], "chunk_seq")
                    count == CountSeq(chunks, seq, Len(chunks))
                IN  IF (\A j \in 1..(i - 1) : ~JEq(Get(chunks[j], "chunk_seq"), seq))
                       /\ count > 1
                    THEN <<StructureError("duplicate_seq", seq, <<count>>, "error")>>
                    ELSE <<>>],
            Len(chunks))

RECURSIVE SortInts(_)
\* sorted(...) of a sequence of integers
SortInts(q) ==
    IF Len(q) = 0 THEN <<>>
    ELSE LET m == CHOOSE i \in 1..Len(q) : \A j \in 1..Len(q) : q[i] <= q[j]
         IN  <<q[m]>> \o SortInts([k \in 1..(Len(q) - 1) |-> IF k < m THEN q[k] ELSE q[k + 1]])

RECURSIVE SetToSortedSeq(_)
\* sorted(S) of a set of integers
SetToSortedSeq(S) ==
    IF S = {} THEN <<>>
    ELSE LET m == CHOOSE x \in S : \A y \in S : x <= y
         IN  <<m>> \o SetToSortedSeq(S \ {m})

\* range(a, b) as a list
RangeList(a, b) == [k \in 1..(IF b > a THEN b - a ELSE 0) |-> a + k - 1]

\* the values c.get("chunk_seq", -1) of the chunks
SeqValues(chunks) == [i \in 1..Len(chunks) |-> GetD(chunks[i], "chunk_seq", JInt(-1))]

(* sorted(...) and range(seqs[0], ...) need integers: another value        *)
(* (null, a string) raises TypeError in sorted() or in range().            *)
SeqsRaise(chunks) == \E i \in 1..Len(chunks) : ~IsIntJ(SeqValues(chunks)[i])

\* seqs = sorted(c.get("chunk_seq", -1) for c in chunks)
SortedSeqs(chunks) == SortInts([i \in 1..Len(chunks) |-> SeqValues(chunks)[i].v])

\* seq_not_zero: the smallest chunk_seq is not 0
SeqNotZeroErrors(seqs) ==
    IF seqs[1] # 0
    THEN <<StructureError("seq_not_zero", JInt(seqs[1]), <<seqs[1]>>, "error")>>
    ELSE <<>>

(* a variant of SeqGapErrors whose expected range is as long as the set of *)
(* values: range(seqs[0], seqs[0] + len(set(seqs))).                       *)
SeqGapErrors_over_distinct(seqs) ==
    LET values == {seqs[k] : k \in 1..Len(seqs)}
        expected == RangeList(seqs[1], seqs[1] + Cardinality(values))
        missing == {expected[k] : k \in 1..Len(expected)} \ values
    IN  IF seqs # expected /\ missing # {}
        THEN <<StructureError("seq_gap", JInt(seqs[1]), SetToSortedSeq(missing), "error")>>
        ELSE <<>>

(* a variant of SeqGapErrors whose expected range starts at 0:             *)
(* range(0, len(seqs)).                                                    *)
SeqGapErrors_from_zero(seqs) ==
    LET expected == RangeList(0, Len(seqs))
        missing == {expected[k] : k \in 1..Len(expected)} \ {seqs[k] : k \in 1..Len(seqs)}
    IN  IF seqs # expected /\ missing # {}
        THEN <<StructureError("seq_gap", JInt(seqs[1]), SetToSortedSeq(missing), "error")>>
        ELSE <<>>

(* seq_gap: expected = range(seqs[0], seqs[0] + len(seqs)); the values of  *)
(* expected that no chunk carries are listed in one finding.               *)
SeqGapErrors(seqs) ==
    LET expected == RangeList(seqs[1], seqs[1] + Len(seqs))
        missing == {expected[k] : k \in 1..Len(expected)} \ {seqs[k] : k \in 1..Len(seqs)}
    IN  IF seqs # expected /\ missing # {}
        THEN <<StructureError("seq_gap", JInt(seqs[1]), SetToSortedSeq(missing), "error")>>
        ELSE <<>>

\* c.get("split") is not None
HasSplit(c) == ~IsNone(Get(c, "split"))

\* gid = c["split"].get("group_id", c.get("section_id", "?"))
GroupId(c) == GetD(Get(c, "split"), "group_id", GetD(c, "section_id", JStr("?")))

(* c["split"].get(...) raises AttributeError when split is neither None    *)
(* nor an object (a string, a number, a list have no .get), and            *)
(* split_groups[gid] raises TypeError on a group id without a hash.        *)
SplitGroupingRaises(chunks) ==
    \E i \in 1..Len(chunks) :
        HasSplit(chunks[i])
        /\ (~IsDict(Get(chunks[i], "split")) \/ Unhashable(GroupId(chunks[i])))

RECURSIVE FilterChunks(_, _, _)
\* split_groups[gid]: the chunks with a split whose group id is gid, in order
FilterChunks(chunks, gid, n) ==
    IF n = 0 THEN <<>>
    ELSE FilterChunks(chunks, gid, n - 1)
         \o (IF HasSplit(chunks[n]) /\ JEq(GroupId(chunks[n]), gid)
             THEN <<chunks[n]>> ELSE <<>>)

RECURSIVE GroupIds(_, _)
\* the keys of split_groups in insertion order
GroupIds(chunks, n) ==
    IF n = 0 THEN <<>>
    ELSE LET before == GroupIds(chunks, n - 1)
         IN  IF HasSplit(chunks[n])
                /\ \A k \in 1..Len(before) : ~JEq(before[k], GroupId(chunks[n]))
             THEN Append(before, GroupId(chunks[n]))
             ELSE before

\* set(c["split"]["split_total"] for c in group if "split_total" in c.get("split", {}))
SplitTotals(group) ==
    { Get(group[i], "split").v["split_total"] :
        i \in { k \in 1..Len(group) : HasKey(Get(group[k], "split"), "split_total") } }

RECURSIVE SplitIndexValues(_, _)
\* [c["split"]["split_index"] for c in group if "split_index" in c.get("split", {})]
SplitIndexValues(group, n) ==
    IF n = 0 THEN <<>>
    ELSE SplitIndexValues(group, n - 1)
         \o (IF HasKey(Get(group[n], "split"), "split_index")
             THEN <<Get(group[n], "split").v["split_index"]>> ELSE <<>>)

\* a variant of SplitCountErrors that only notices a group with too few members
SplitCountErrors_too_few(gid, group, expected_total) ==
    IF ~(IsIntJ(expected_total) /\ Len(group) >= expected_total.v)
    THEN <<StructureError("split_count_mismatch", gid,
                          <<Len(group)>>, "error")>>
    ELSE <<>>

\* len(group) != expected_total
SplitCountErrors(gid, group, expected_total) ==
    IF ~(IsIntJ(expected_total) /\ Len(group) = expected_total.v)
    THEN <<StructureError("split_count_mismatch", gid,
                          <<Len(group)>>, "error")>>
    ELSE <<>>

\* sorted(split_index values) != list(range(expected_total))
SplitIndexErrors(gid, group, expected_total) ==
    LET vals == SplitIndexValues(group, Len(group))
        indices == SortInts([k \in 1..Len(vals) |-> vals[k].v])
    IN  IF ~AllInts(vals) \/ indices # RangeList(0, expected_total)
        THEN <<StructureError("split_index_gap", gid,
                              IF AllInts(vals) THEN indices ELSE <<>>, "error")>>
        ELSE <<>>

\* set(...) raises TypeError on a split_total without a hash
SplitTotalsRaise(group) ==
    \E i \in 1..Len(group) :
        /\ HasKey(Get(group[i], "split"), "split_total")
        /\ Unhashable(Get(group[i], "split").v["split_total"])

(* sorted() raises TypeError on split_index values that cannot be ordered  *)
(* and range() raises TypeError on a split_total that is no integer.       *)
SplitGroupRaises(group) ==
    LET totals == SplitTotals(group)
        vals == SplitIndexValues(group, Len(group))
    IN  \/ SplitTotalsRaise(group)
        \/ Cardinality(totals) = 1
           /\ (   (~AllInts(vals) /\ Len(vals) > 1)
               \/ ~IsIntJ(CHOOSE x \in totals : TRUE))

(* one iteration of `for gid, group in split_groups.items()`: the findings *)
(* appended before the iteration ends or raises.                           *)
SplitGroupErrors(gid, group) ==
    LET totals == SplitTotals(group)
    IN  IF SplitTotalsRaise(group) THEN <<>>
        ELSE IF Cardinality(totals) > 1
        THEN <<StructureError("split_total_mismatch", gid, <<>>, "error")>>
        ELSE IF Cardinality(totals) = 1
        THEN LET expected_total == CHOOSE x \in totals : TRUE
             IN  SplitCountErrors(gid, group, expected_total)
                 \o (IF SplitGroupRaises(group) THEN <<>>
                     ELSE SplitIndexErrors(gid, group, expected_total.v))
        ELSE <<>>

RECURSIVE SplitGroupsLoop(_, _, _)
\* the loop over the first n groups: [raised, errors]
SplitGroupsLoop(chunks, gids, n) ==
    IF n = 0 THEN [raised |-> FALSE, errors |-> <<>>]
    ELSE LET before == SplitGroupsLoop(chunks, gids, n - 1)
             group == FilterChunks(chunks, gids[n], Len(chunks))
         IN  IF before.raised THEN before
             ELSE [raised |-> SplitGroupRaises(group),
                   errors |-> before.errors \o SplitGroupErrors(gids[n], group)]

\* `if sid and si is not None`: the chunk enters sid_to_si
HasSectionIndex(c) == Truthy(Get(c, "section_id")) /\ ~IsNone(Get(c, "section_index"))

(* sid_to_si[sid].add(si) raises TypeError on a section_id or a            *)
(* section_index without a hash.                                           *)
SectionIndexRaises(chunks) ==
    \E i \in 1..Len(chunks) :
        /\ HasSectionIndex(chunks[i])
        /\ \/ Unhashable(Get(chunks[i], "section_id"))
           \/ Unhashable(Get(chunks[i], "section_index"))

\* sid_to_si[sid]: the section_index values seen under one section_id
SectionIndexSet(chunks, sid) ==
    { Get(chunks[i], "section_index") :
        i \in { k \in 1..Len(chunks) :
                  HasSectionIndex(chunks[k]) /\ JEq(Get(chunks[k], "section_id"), sid) } }

\* section_index_mismatch: one finding per section_id with several section_index values
SectionIndexErrors(chunks) ==
    FlatMap([i \in 1..Len(chunks) |->
                LET sid == Get(chunks[i], "section_id")
                IN  IF HasSectionIndex(chunks[i])
                       /\ (\A j \in 1..(i - 1) :
                              ~(HasSectionIndex(chunks[j])
                                /\ JEq(Get(chunks[j], "section_id"), sid)))
                       /\ Cardinality(SectionIndexSet(chunks, sid)) > 1
                    THEN <<StructureError("section_index_mismatch", sid, <<>>, "error")>>
                    ELSE <<>>],
            Len(chunks))

\* the sort key of sorted(chunks, key=lambda c: c.get("chunk_seq", 0))
SortKey(c) == GetD(c, "chunk_seq", JInt(0)).v

RECURSIVE SortChunks(_)
\* sorted(chunks, key=...): a stable sort by ascending key
SortChunks(chunks) ==
    IF Len(chunks) = 0 THEN <<>>
    ELSE LET m == CHOOSE i \in 1..Len(chunks) :
                     /\ \A j \in 1..Len(chunks) : SortKey(chunks[i]) <= SortKey(chunks[j])
                     /\ \A j \in 1..(i - 1) : SortKey(chunks[j]) # SortKey(chunks[i])
         IN  <<chunks[m]>>
             \o SortChunks([k \in 1..(Len(chunks) - 1) |->
                               IF k < m THEN chunks[k] ELSE chunks[k + 1]])

\* chunk_ids = {c.get("chunk_id") for c in sorted_chunks}
ChunkIds(chunks) == { Get(chunks[i], "chunk_id") : i \in 1..Len(chunks) }

\* a variant of the iteration that tests prev_chunk_id alone for membership
LinkErrors_prev_only(sorted_chunks, chunk_ids, i) ==
    LET c == sorted_chunks[i + 1]
        cid == GetD(c, "chunk_id", JStr("?"))
        prev_id == Get(c, "prev_chunk_id")
        next_id == Get(c, "next_chunk_id")
    IN  (IF i = 0 /\ ~IsNone(prev_id)
         THEN <<StructureError("prev_chunk_id_error", cid, <<>>, "warning")>>
         ELSE <<>>)
        \o (IF i = Len(sorted_chunks) - 1 /\ ~IsNone(next_id)
            THEN <<StructureError("next_chunk_id_error", cid, <<>>, "warning")>>
            ELSE <<>>)
        \o (IF ~IsNone(prev_id) /\ prev_id \notin chunk_ids
            THEN <<StructureError("prev_chunk_id_dangling", cid, <<>>, "error")>>
            ELSE <<>>)

\* the findings of one iteration of the prev/next walk (i is 0-based)
LinkErrors(sorted_chunks, chunk_ids, i) ==
    LET c == sorted_chunks[i + 1]
        cid == GetD(c, "chunk_id", JStr("?"))
        prev_id == Get(c, "prev_chunk_id")
        next_id == Get(c, "next_chunk_id")
    IN  (IF i = 0 /\ ~IsNone(prev_id)
         THEN <<StructureError("prev_chunk_id_error", cid, <<>>, "warning")>>
         ELSE <<>>)
        \o (IF i = Len(sorted_chunks) - 1 /\ ~IsNone(next_id)
            THEN <<StructureError("next_chunk_id_error", cid, <<>>, "warning")>>
            ELSE <<>>)
        \o (IF ~IsNone(prev_id) /\ prev_id \notin chunk_ids
            THEN <<StructureError("prev_chunk_id_dangling", cid, <<>>, "error")>>
            ELSE <<>>)
        \o (IF ~IsNone(next_id) /\ next_id \notin chunk_ids
            THEN <<StructureError("next_chunk_id_dangling", cid, <<>>, "error")>>
            ELSE <<>>)

\* `x not in chunk_ids` raises TypeError on a link value without a hash
LinkRaises(c) ==
    Unhashable(Get(c, "prev_chunk_id")) \/ Unhashable(Get(c, "next_chunk_id"))

(* the findings one iteration appends before it raises: the first/last     *)
(* warnings, and the prev finding when it is next_chunk_id that raises.    *)
LinkErrorsBeforeRaise(sorted_chunks, chunk_ids, i) ==
    LET all == LinkErrors(sorted_chunks, chunk_ids, i)
        prevRaises == Unhashable(Get(sorted_chunks[i + 1], "prev_chunk_id"))
    IN  SelectSeq(all, LAMBDA e : \/ e.severity = "warning"
                                  \/ ~prevRaises /\ e.error_type = "prev_chunk_id_dangling")

RECURSIVE PrevNextLoop(_, _, _)
\* the first n iterations of the prev/next walk: [raised, errors]
PrevNextLoop(sorted_chunks, chunk_ids, n) ==
    IF n = 0 THEN [raised |-> FALSE, errors |-> <<>>]
    ELSE LET before == PrevNextLoop(sorted_chunks, chunk_ids, n - 1)
         IN  IF before.raised THEN before
             ELSE IF LinkRaises(sorted_chunks[n])
             THEN [raised |-> TRUE,
                   errors |-> before.errors
                              \o LinkErrorsBeforeRaise(sorted_chunks, chunk_ids, n - 1)]
             ELSE [raised |-> FALSE,
                   errors |-> before.errors \o LinkErrors(sorted_chunks, chunk_ids, n - 1)]

(* the prev/next walk over the chunks sorted by chunk_seq; building the    *)
(* set chunk_ids raises TypeError on a chunk_id without a hash.            *)
PrevNextErrors(chunks) ==
    LET sorted_chunks == SortChunks(chunks)
        chunk_ids == ChunkIds(sorted_chunks)
    IN  IF \E i \in 1..Len(chunks) : Unhashable(Get(chunks[i], "chunk_id"))
        THEN [raised |-> TRUE, errors |-> <<>>]
        ELSE PrevNextLoop(sorted_chunks, chunk_ids, Len(chunks))

(* verify_structure: [raised, errors].  `errors` is what the call appended *)
(* to report.structure_errors; `raised` says that it ended in an uncaught  *)
(* exception (TypeError, AttributeError) instead of returning.             *)
verify_structure(data) ==
    LET chunks == ChunksOf(data)
        dup == DuplicateSeqErrors(chunks)
    IN  IF Len(chunks) = 0 THEN [raised |-> FALSE, errors |-> <<>>]
        ELSE IF CounterRaises(chunks) THEN [raised |-> TRUE, errors |-> <<>>]
        ELSE IF SeqsRaise(chunks)
        THEN [raised |-> TRUE,
              errors |-> dup \o
                  (IF Len(chunks) = 1
                   THEN <<StructureError("seq_not_zero", SeqValues(chunks)[1], <<>>, "error")>>
                   ELSE <<>>)]
        ELSE LET seqs == SortedSeqs(chunks)
                 seqErrors == dup \o SeqNotZeroErrors(seqs) \o SeqGapErrors(seqs)
             IN  IF SplitGroupingRaises(chunks)
                 THEN [raised |-> TRUE, errors |-> seqErrors]
                 ELSE LET gids == GroupIds(chunks, Len(chunks))
                          groups == SplitGroupsLoop(chunks, gids, Len(gids))
                      IN  IF groups.raised
                          THEN [raised |-> TRUE, errors |-> seqErrors \o groups.errors]
                          ELSE IF SectionIndexRaises(chunks)
                          THEN [raised |-> TRUE, errors |-> seqErrors \o groups.errors]
                          ELSE LET links == PrevNextErrors(chunks)
                               IN  [raised |-> links.raised,
                                    errors |-> seqErrors \o groups.errors
                                               \o SectionIndexErrors(chunks)
                                               \o links.errors]

(***************************************************************************)
(* Text primitives.  A Python str that is scanned character by character   *)
(* (chunk text, section_path entries, the source text) is a sequence of    *)
(* one-character strings.  The character classes below are the ASCII       *)
(* members of the classes of the regular expressions.                      *)
(***************************************************************************)
Letters ==
    {"a", "b", "c", "d", "e", "f", "g", "h", "i", "j", "k", "l", "m",
     "n", "o", "p", "q", "r", "s", "t", "u", "v", "w", "x", "y", "z",
     "A", "B", "C", "D", "E", "F", "G", "H", "I", "J", "K", "L", "M",
     "N", "O", "P", "Q", "R", "S", "T", "U", "V", "W", "X", "Y", "Z"}
Digits == {"0", "1", "2", "3", "4", "5", "6", "7", "8", "9"}

\* [a-zA-Z0-9]: a character of a word token
IsWordChar(c) == c \in Letters \cup Digits
\* [a-zA-Z0-9.]: a character of a token of the numeric checker
IsNumWordChar(c) == c \in Letters \cup Digits \cup {"."}

(* re.findall(r'[class]+', text): the maximal runs of class characters, in *)
(* the order of their first positions.  i is the scan position, cur the    *)
(* run read before i, dot says which class.                                *)
Tokens(text, i, cur, dot) ==
    LET InClass(k) == IF dot THEN IsNumWordChar(text[k]) ELSE IsWordChar(text[k])
        starts == {k \in i..Len(text) : InClass(k) /\ (k = i \/ ~InClass(k - 1))}
        NthStart(n) == CHOOSE st \in starts : Cardinality({t \in starts : t < st}) = n - 1
        RunStop(st) == CHOOSE e \in st..Len(text) :
                          /\ \A j \in st..e : InClass(j)
                          /\ (e = Len(text) \/ ~InClass(e + 1))
        runs == [n \in 1..Cardinality(starts) |->
                    SubSeq(text, NthStart(n), RunStop(NthStart(n)))]
    IN  IF cur = <<>> THEN runs
        ELSE IF i \in starts THEN <<cur \o runs[1]>> \o Tail(runs)
        ELSE <<cur>> \o runs

\* _extract_words
extract_words(text) == Tokens(text, 1, <<>>, FALSE)
\* re.findall(r'[a-zA-Z0-9.]+', text)
extract_num_words(text) == Tokens(text, 1, <<>>, TRUE)

RECURSIVE Concat(_, _)
\* "".join(parts[1..n]), joined half by half
Concat(parts, n) ==
    IF n = 0 THEN <<>>
    ELSE IF n = 1 THEN parts[1]
    ELSE Concat(SubSeq(parts, 1, n \div 2), n \div 2)
         \o Concat(SubSeq(parts, n \div 2 + 1, n), n - n \div 2)

RECURSIVE JoinSpace(_, _)
\* " ".join(parts[1..n])
JoinSpace(parts, n) ==
    IF n = 0 THEN <<>>
    ELSE IF n = 1 THEN parts[1]
    ELSE JoinSpace(parts, n - 1) \o <<" ">> \o parts[n]

\* a in b, for strings
IsSubstring(a, b) ==
    \E k \in 0..(Len(b) - Len(a)) : \A j \in 1..Len(a) : b[k + j] = a[j]

RECURSIVE Strip(_)
\* str.strip()
Strip(s) ==
    IF Len(s) = 0 THEN s
    ELSE IF s[1] \in Whitespace THEN Strip(Tail(s))
    ELSE IF s[Len(s)] \in Whitespace THEN Strip(SubSeq(s, 1, Len(s) - 1))
    ELSE s

(* text.split(sep) for a one-character separator: the parts between the    *)
(* separators, from position i on; cur is the part read before i.          *)
SplitOn(text, sep, i, cur) ==
    LET seps == {k \in i..Len(text) : text[k] = sep}
        NthSep(n) == CHOOSE k \in seps : Cardinality({t \in seps : t < k}) = n - 1
        parts == [n \in 1..(Cardinality(seps) + 1) |->
                     SubSeq(text,
                            IF n = 1 THEN i ELSE NthSep(n - 1) + 1,
                            IF n = Cardinality(seps) + 1 THEN Len(text) ELSE NthSep(n) - 1)]
    IN  <<cur \o parts[1]>> \o Tail(parts)

\* the lookbehind class [a-zA-Z0-9\)\]] of the sentence terminator
IsTerminatorLead(c) == c \in Letters \cup Digits \cup {")", "]"}

(* the sentence terminator matches at position i of line: a "." preceded   *)
(* by a lead character and followed by one whitespace character or the end *)
TerminatorAt(line, i) ==
    /\ line[i] = "."
    /\ i > 1 /\ IsTerminatorLead(line[i - 1])
    /\ (i = Len(line) \/ line[i + 1] \in Whitespace)

RECURSIVE SplitLine(_, _, _)
\* re.split(terminator, line): the match takes the "." and the whitespace after it
SplitLine(line, i, cur) ==
    IF i > Len(line) THEN <<cur>>
    ELSE IF TerminatorAt(line, i)
    THEN <<cur>> \o SplitLine(line, IF i = Len(line) THEN i + 1 ELSE i + 2, <<>>)
    ELSE SplitLine(line, i + 1, Append(cur, line[i]))

RECURSIVE StripNonEmpty(_, _)
\* [p.strip() for p in parts[1..n] if p.strip()]
StripNonEmpty(parts, n) ==
    IF n = 0 THEN <<>>
    ELSE StripNonEmpty(parts, n - 1)
         \o (IF Strip(parts[n]) = <<>> THEN <<>> ELSE <<Strip(parts[n])>>)

\* _split_sentences
split_sentences(text) ==
    LET lines == StripNonEmpty(SplitOn(text, "\n", 1, <<>>), Len(SplitOn(text, "\n", 1, <<>>)))
    IN  FlatMap([k \in 1..Len(lines) |->
                    LET parts == SplitLine(lines[k], 1, <<>>)
                    IN  StripNonEmpty(parts, Len(parts))],
                Len(lines))

(***************************************************************************)
(* _NUMERIC_RE and _extract_numeric_patterns                               *)
(***************************************************************************)
\* the operator class and the unit class of _NUMERIC_RE (ASCII members)
NumericOperators == {">", "<", "~"}
UnitChars == Letters \cup {"%"}

RECURSIVE RunEnd(_, _, _)
\* the first position >= i of text that holds no character of class S
RunEnd(text, i, S) ==
    IF i <= Len(text) /\ text[i] \in S THEN RunEnd(text, i + 1, S) ELSE i

IsDigitAt(text, i) == i <= Len(text) /\ text[i] \in Digits

(* the match of _NUMERIC_RE that starts at position p, if there is one:    *)
(* [found, operator, value, unit, start, stop] with stop the position      *)
(* after the match.  Every quantifier is greedy and nothing after the      *)
(* digits can fail, so the first alternative that reaches a digit wins.    *)
NumericMatchAt(text, p) ==
    LET hasOp == text[p] \in NumericOperators
        vstart == RunEnd(text, IF hasOp THEN p + 1 ELSE p, Whitespace)
        intEnd == RunEnd(text, vstart, Digits)
        vstop == IF intEnd <= Len(text) /\ text[intEnd] = "." /\ IsDigitAt(text, intEnd + 1)
                 THEN RunEnd(text, intEnd + 1, Digits) ELSE intEnd
        ustart == RunEnd(text, vstop, Whitespace)
        ustop == RunEnd(text, ustart, UnitChars)
    IN  IF ~IsDigitAt(text, vstart) THEN [found |-> FALSE]
        ELSE [found    |-> TRUE,
              operator |-> IF hasOp THEN <<text[p]>> ELSE <<>>,
              value    |-> SubSeq(text, vstart, vstop - 1),
              unit     |-> SubSeq(text, ustart, ustop - 1),
              start    |-> p,
              stop     |-> ustop]

\* the last two / the first two tokens
LastTwo(words) == IF Len(words) >= 2 THEN SubSeq(words, Len(words) - 1, Len(words)) ELSE words
FirstTwo(words) == IF Len(words) >= 2 THEN SubSeq(words, 1, 2) ELSE words

\* re.sub(r'[^a-zA-Z]', '', unit)
AlphaOnly(unit) == SelectSeq(unit, LAMBDA c : c \in Letters)

\* a variant of the dict whose search key is the value and unit letters alone
NumericPattern_key_without_context(text, m) ==
    LET ctx_before == LastTwo(extract_num_words(SubSeq(text, 1, m.start - 1)))
        ctx_after == FirstTwo(extract_num_words(SubSeq(text, m.stop, Len(text))))
    IN  [ raw            |-> Strip(SubSeq(text, m.start, m.stop - 1)),
          operator       |-> m.operator,
          value          |-> m.value,
          unit           |-> m.unit,
          context_before |-> ctx_before,
          context_after  |-> ctx_after,
          search_key     |-> m.value \o AlphaOnly(m.unit) ]

\* the dict built for one retained match m
NumericPattern(text, m) ==
    LET ctx_before == LastTwo(extract_num_words(SubSeq(text, 1, m.start - 1)))
        ctx_after == FirstTwo(extract_num_words(SubSeq(text, m.stop, Len(text))))
    IN  [ raw            |-> Strip(SubSeq(text, m.start, m.stop - 1)),
          operator       |-> m.operator,
          value          |-> m.value,
          unit           |-> m.unit,
          context_before |-> ctx_before,
          context_after  |-> ctx_after,
          search_key     |-> Concat(ctx_before, Len(ctx_before)) \o m.value
                             \o AlphaOnly(m.unit) \o Concat(ctx_after, Len(ctx_after)) ]

RECURSIVE NumericScan(_, _)
(* _NUMERIC_RE.finditer(text) from position p on, with the loop body: a    *)
(* match with neither operator nor unit is skipped.                        *)
NumericScan(text, p) ==
    LET hits == {q \in p..Len(text) : NumericMatchAt(text, q).found}
    IN  IF hits = {} THEN <<>>
        ELSE LET m == NumericMatchAt(text, CHOOSE q \in hits : \A h \in hits : q <= h)
             IN  (IF m.operator = <<>> /\ m.unit = <<>> THEN <<>>
                  ELSE <<NumericPattern(text, m)>>)
                 \o NumericScan(text, m.stop)

\* _extract_numeric_patterns
extract_numeric_patterns(text) == NumericScan(text, 1)

(***************************************************************************)
(* _extract_pdf_text.  The source document is [kind, pages]: kind is       *)
(* "no_fitz" (import fitz fails), "open_fails" (fitz.open raises) or       *)
(* "doc", with pages the text of each page.                                *)
(***************************************************************************)

\* the spans the page-range loop walks for one chunk: locators.get("spans", [])
ExtractSpans(c) == GetD(GetD(c, "locators", EmptyObj), "spans", JList(<<>>))

(* the page-range loop raises AttributeError / TypeError on a locators     *)
(* value without .get (null included: the key is present), on spans that   *)
(* cannot be walked, on a span without .get, and on page bounds that are   *)
(* no integers.                                                            *)
ExtractRaisesOn(c) ==
    \/ ~IsDict(GetD(c, "locators", EmptyObj))
    \/ ~IsList(ExtractSpans(c))
    \/ \E i \in 1..Len(ExtractSpans(c).v) :
          LET span == ExtractSpans(c).v[i]
          IN  \/ ~IsDict(span)
              \/ /\ ~IsNone(Get(span, "pdf_page_start"))
                 /\ ~IsNone(Get(span, "pdf_page_end"))
                 /\ ~(IsIntJ(Get(span, "pdf_page_start")) /\ IsIntJ(Get(span, "pdf_page_end")))

ExtractRaises(chunks) == \E i \in 1..Len(chunks) : ExtractRaisesOn(chunks[i])

\* pdf_pages: every page number of every span with both bounds
PdfPages(chunks) ==
    UNION { UNION { LET span == ExtractSpans(chunks[i]).v[k]
                    IN  IF IsNone(Get(span, "pdf_page_start")) \/ IsNone(Get(span, "pdf_page_end"))
                        THEN {}
                        ELSE Get(span, "pdf_page_start").v .. Get(span, "pdf_page_end").v
                    : k \in 1..Len(ExtractSpans(chunks[i]).v) }
            : i \in 1..Len(chunks) }

\* the text of the pages read: page.get_text() + "\n" for each
PagesText(pages, nums) ==
    FlatMap([k \in 1..Len(nums) |-> pages[nums[k]] \o <<"\n">>], Len(nums))

(* _extract_pdf_text: [raised, text]; text is Null for None.               *)
extract_pdf_text(pdf, data) ==
    LET chunks == ChunksOf(data)
    IN  IF pdf.kind = "no_fitz" THEN [raised |-> FALSE, text |-> Null]
        ELSE IF ExtractRaises(chunks) THEN [raised |-> TRUE, text |-> Null]
        ELSE IF pdf.kind = "open_fails" THEN [raised |-> FALSE, text |-> Null]
        ELSE LET pdf_pages == PdfPages(chunks)
                 nums == IF pdf_pages # {}
                         THEN SetToSortedSeq(pdf_pages \cap (1..Len(pdf.pages)))
                         ELSE [k \in 1..Len(pdf.pages) |-> k]
                 pdf_text == PagesText(pdf.pages, nums)
             IN  IF Strip(pdf_text) = <<>> THEN [raised |-> FALSE, text |-> Null]
                 ELSE [raised |-> FALSE, text |-> JStr(pdf_text)]

(***************************************************************************)
(* verify_coverage and verify_numerics                                     *)
(***************************************************************************)

\* the strings one chunk adds to all_text_parts: its text, then its section_path
TextParts(c) ==
    <<GetD(c, "text", JStr(<<>>))>> \o GetD(c, "section_path", JList(<<>>)).v

(* building and joining all_text_parts raises TypeError on a section_path  *)
(* that cannot be walked and on a part that is no string.                  *)
TextPartsRaise(chunks) ==
    \E i \in 1..Len(chunks) :
        \/ ~IsList(GetD(chunks[i], "section_path", JList(<<>>)))
        \/ \E k \in 1..Len(TextParts(chunks[i])) : ~IsStrJ(TextParts(chunks[i])[k])

\* " ".join(all_text_parts)
AllChunksText(chunks) ==
    LET parts == FlatMap([i \in 1..Len(chunks) |->
                             [k \in 1..Len(TextParts(chunks[i])) |-> TextParts(chunks[i])[k].v]],
                         Len(chunks))
    IN  JoinSpace(parts, Len(parts))

CoverageResult(total, matched, skipped, unmatched) ==
    [ total_sentences |-> total, matched_sentences |-> matched,
      skipped_sentences |-> skipped, unmatched |-> unmatched ]

\* s[:100], the preview of an unmatched sentence
Preview(s) == IF Len(s) > 100 THEN SubSeq(s, 1, 100) ELSE s

\* the last 5 words of a sentence
Last5(words) == SubSeq(words, Len(words) - 4, Len(words))

RECURSIVE CoverageLoop_without_seen_keys(_, _, _)
\* a variant of the loop that checks every sentence of five words, repeated or not
CoverageLoop_without_seen_keys(sentences, all_chunks_joined, n) ==
    IF n = 0
    THEN [seen_keys |-> {}, result |-> CoverageResult(Len(sentences), 0, 0, <<>>)]
    ELSE LET before == CoverageLoop_without_seen_keys(sentences, all_chunks_joined, n - 1)
             r == before.result
             words == extract_words(sentences[n])
             last5_joined == Concat(Last5(words), 5)
         IN  IF Len(words) < 5
             THEN [before EXCEPT !.result.skipped_sentences = @ + 1]
             ELSE IF IsSubstring(last5_joined, all_chunks_joined)
             THEN [before EXCEPT !.result.matched_sentences = @ + 1]
             ELSE [before EXCEPT !.result.unmatched =
                      Append(@, [sentence |-> Preview(Strip(sentences[n])),
                                 last5 |-> JoinSpace(Last5(words), 5)])]

RECURSIVE CoverageLoop(_, _, _)
(* the loop over sentences[1..n]: [seen_keys, result]                      *)
CoverageLoop(sentences, all_chunks_joined, n) ==
    IF n = 0
    THEN [seen_keys |-> {}, result |-> CoverageResult(Len(sentences), 0, 0, <<>>)]
    ELSE LET before == CoverageLoop(sentences, all_chunks_joined, n - 1)
             r == before.result
             words == extract_words(sentences[n])
             last5_joined == Concat(Last5(words), 5)
         IN  IF Len(words) < 5
             THEN [before EXCEPT !.result.skipped_sentences = @ + 1]
             ELSE IF last5_joined \in before.seen_keys
             THEN [before EXCEPT !.result.skipped_sentences = @ + 1]
             ELSE IF IsSubstring(last5_joined, all_chunks_joined)
             THEN [seen_keys |-> before.seen_keys \cup {last5_joined},
                   result |-> [r EXCEPT !.matched_sentences = @ + 1]]
             ELSE [seen_keys |-> before.seen_keys \cup {last5_joined},
                   result |-> [r EXCEPT !.unmatched =
                                  Append(@, [sentence |-> Preview(Strip(sentences[n])),
                                             last5 |-> JoinSpace(Last5(words), 5)])]]

\* verify_coverage: [raised, result]
verify_coverage(pdf_text, data) ==
    LET chunks == ChunksOf(data)
        sentences == split_sentences(pdf_text)
    IN  IF TextPartsRaise(chunks) THEN [raised |-> TRUE, result |-> Null]
        ELSE LET all_chunks_words == extract_words(AllChunksText(chunks))
                 all_chunks_joined == Concat(all_chunks_words, Len(all_chunks_words))
             IN  [raised |-> FALSE,
                  result |-> CoverageLoop(sentences, all_chunks_joined, Len(sentences)).result]

NumericResult(total, matched, skipped, unmatched) ==
    [ total_patterns |-> total, matched_patterns |-> matched,
      skipped_patterns |-> skipped, unmatched |-> unmatched ]

RECURSIVE NumericLoop_matches_value(_, _, _)
\* a variant of the loop that looks up the numeric value alone, not the search key
NumericLoop_matches_value(pdf_patterns, chunks_joined, n) ==
    IF n = 0
    THEN [seen_keys |-> {}, result |-> NumericResult(Len(pdf_patterns), 0, 0, <<>>)]
    ELSE LET before == NumericLoop_matches_value(pdf_patterns, chunks_joined, n - 1)
             r == before.result
             key == pdf_patterns[n].search_key
         IN  IF key \in before.seen_keys
             THEN [before EXCEPT !.result.skipped_patterns = @ + 1]
             ELSE IF IsSubstring(pdf_patterns[n].value, chunks_joined)
             THEN [seen_keys |-> before.seen_keys \cup {key},
                   result |-> [r EXCEPT !.matched_patterns = @ + 1]]
             ELSE [seen_keys |-> before.seen_keys \cup {key},
                   result |-> [r EXCEPT !.unmatched = Append(@, pdf_patterns[n])]]

RECURSIVE NumericLoop_dropping_repeats(_, _, _)
\* a variant of NumericLoop that passes over a repeated search_key without counting it
NumericLoop_dropping_repeats(pdf_patterns, chunks_joined, n) ==
    IF n = 0
    THEN [seen_keys |-> {}, result |-> NumericResult(Len(pdf_patterns), 0, 0, <<>>)]
    ELSE LET before == NumericLoop_dropping_repeats(pdf_patterns, chunks_joined, n - 1)
             r == before.result
             key == pdf_patterns[n].search_key
         IN  IF key \in before.seen_keys
             THEN before
             ELSE IF IsSubstring(key, chunks_joined)
             THEN [seen_keys |-> before.seen_keys \cup {key},
                   result |-> [r EXCEPT !.matched_patterns = @ + 1]]
             ELSE [seen_keys |-> before.seen_keys \cup {key},
                   result |-> [r EXCEPT !.unmatched = Append(@, pdf_patterns[n])]]

RECURSIVE NumericLoop(_, _, _)
\* the loop over pdf_patterns[1..n]: [seen_keys, result]
NumericLoop(pdf_patterns, chunks_joined, n) ==
    IF n = 0
    THEN [seen_keys |-> {}, result |-> NumericResult(Len(pdf_patterns), 0, 0, <<>>)]
    ELSE LET before == NumericLoop(pdf_patterns, chunks_joined, n - 1)
             r == before.result
             key == pdf_patterns[n].search_key
         IN  IF key \in before.seen_keys
             THEN [before EXCEPT !.result.skipped_patterns = @ + 1]
             ELSE IF IsSubstring(key, chunks_joined)
             THEN [seen_keys |-> before.seen_keys \cup {key},
                   result |-> [r EXCEPT !.matched_patterns = @ + 1]]
             ELSE [seen_keys |-> before.seen_keys \cup {key},
                   result |-> [r EXCEPT !.unmatched = Append(@, pdf_patterns[n])]]

\* verify_numerics: [raised, result]
verify_numerics(pdf_text, data) ==
    LET chunks == ChunksOf(data)
        pdf_patterns == extract_numeric_patterns(pdf_text)
    IN  IF Len(pdf_patterns) = 0
        THEN [raised |-> FALSE, result |-> NumericResult(0, 0, 0, <<>>)]
        ELSE IF TextPartsRaise(chunks) THEN [raised |-> TRUE, result |-> Null]
        ELSE LET chunks_words == extract_num_words(AllChunksText(chunks))
                 chunks_joined == Concat(chunks_words, Len(chunks_words))
             IN  [raised |-> FALSE,
                  result |-> NumericLoop(pdf_patterns, chunks_joined, Len(pdf_patterns)).result]

(***************************************************************************)
(* VerificationReport: the derived verdicts                                *)
(***************************************************************************)

\* not any(e.severity == "error" for e in errors)
NoErrorSeverity(errors) == \A i \in 1..Len(errors) : errors[i].severity # "error"

\* a variant of schema_ok that counts every finding: not self.schema_errors
schema_ok_no_findings(report) == Len(report.schema_errors) = 0

schema_ok(report) == NoErrorSeverity(report.schema_errors)
structure_ok(report) == NoErrorSeverity(report.structure_errors)

\* a variant of the percentage taken over every item, the skipped ones included
Pct_over_total(total, matched, skipped) ==
    IF total = 0 THEN [num |-> 100, den |-> 1]
    ELSE [num |-> matched * 100, den |-> total]

(* coverage_pct / numeric_pct as the exact fraction num/den of the float   *)
(* (matched / checked) * 100; 100.0 when nothing was checked.              *)
Pct(total, matched, skipped) ==
    LET checked == total - skipped
    IN  IF checked = 0 THEN [num |-> 100, den |-> 1]
        ELSE [num |-> matched * 100, den |-> checked]

coverage_pct(c) == Pct(c.total_sentences, c.matched_sentences, c.skipped_sentences)
numeric_pct(c) == Pct(c.total_patterns, c.matched_patterns, c.skipped_patterns)

\* pct >= 90.0
AtLeast90(pct) == pct.num >= 90 * pct.den

\* a variant of coverage_ok that passes only with a coverage result
coverage_ok_requiring_result(report) ==
    ~IsNone(report.coverage) /\ AtLeast90(coverage_pct(report.coverage.v))

coverage_ok(report) ==
    IF IsNone(report.coverage) THEN TRUE ELSE AtLeast90(coverage_pct(report.coverage.v))

numeric_ok(report) ==
    IF IsNone(report.numeric) THEN TRUE ELSE AtLeast90(numeric_pct(report.numeric.v))

all_ok(report) ==
    schema_ok(report) /\ structure_ok(report) /\ coverage_ok(report) /\ numeric_ok(report)

\* VerificationReport(json_file=...): the fresh report of one run
NewReport ==
    [ total_chunks |-> 0, schema_errors |-> <<>>, structure_errors |-> <<>>,
      coverage |-> Null, numeric |-> Null ]

\* a result object stored in the report (Optional[...] that is not None)
Some(x) == [t |-> "result", v |-> x]

(***************************************************************************)
(* The run: main() -> verify() -> the checks, one action per call          *)
(***************************************************************************)
VARIABLES
    pc,           \* where the run stands
    json_in,      \* the chunk JSON file given on the command line
    pdf_in,       \* the source document given with --pdf ([kind |-> "none"]: not given)
    data,         \* verify()'s local `data` (Null before and after a failed load)
    report,       \* verify()'s local `report`
    pdf_text,     \* verify()'s local `pdf_text` (Null: None or not assigned)
    returned,     \* what verify() returned: "nothing" (not yet), "none", "report"
    raised,       \* an uncaught exception is propagating out of main()
    exit_status,  \* the exit status of the process, -1 while it runs
    calls         \* the calls made so far, in order

vars == <<pc, json_in, pdf_in, data, report, pdf_text, returned, raised, exit_status, calls>>

(* split_pdf.py, the script that cuts a source document into page ranges   *)
(* before chunking: the state of one call of split_pdf                     *)
VARIABLES
    split_pc,     \* where the call stands ("idle": the script is not running)
    page_count,   \* doc.page_count of the opened document
    chunk_size,   \* the chunk_size argument
    num_files,    \* the local num_files
    next_i,       \* the next value of the loop variable i
    created,      \* the local list `created`
    saved,        \* the files written by new_doc.save, in order: [path, pages]
    split_result  \* the returned list (Null before the return)

split_vars ==
    <<split_pc, page_count, chunk_size, num_files, next_i, created, saved, split_result>>

(* a variant of load_chunks whose except branches return an empty dataset  *)
(* instead of None.                                                        *)
load_chunks_empty_on_error(json_file) ==
    IF json_file.kind = "ok" THEN [raised |-> FALSE, data |-> json_file.data]
    ELSE IF json_file.kind \in {"missing", "malformed"} THEN [raised |-> FALSE, data |-> EmptyObj]
    ELSE [raised |-> TRUE, data |-> Null]

(* load_chunks: [raised, data].  JSONDecodeError and FileNotFoundError are *)
(* caught and give None; any other error of open()/json.load() (a          *)
(* directory, no permission, bytes that are not UTF-8) is not caught.      *)
load_chunks(json_file) ==
    IF json_file.kind = "ok" THEN [raised |-> FALSE, data |-> json_file.data]
    ELSE IF json_file.kind \in {"missing", "malformed"} THEN [raised |-> FALSE, data |-> Null]
    ELSE [raised |-> TRUE, data |-> Null]

\* the uncaught exception leaves main(): the interpreter exits with status 1
Crash ==
    /\ raised' = TRUE
    /\ exit_status' = 1
    /\ pc' = "done"

LoadChunks ==
    /\ pc = "start"
    /\ calls' = Append(calls, "load_chunks")
    /\ LET r == load_chunks(json_in)
       IN  IF r.raised
           THEN Crash /\ UNCHANGED <<data, returned>>
           ELSE /\ data' = r.data
                /\ returned' = IF IsNone(r.data) THEN "none" ELSE returned
                /\ pc' = IF IsNone(r.data) THEN "main" ELSE "schema"
                /\ UNCHANGED <<raised, exit_status>>
    /\ UNCHANGED <<json_in, pdf_in, report, pdf_text>>
    /\ UNCHANGED split_vars

(* verify_schema raises AttributeError / TypeError on a top-level value    *)
(* without .get, on a `chunks` value without len(), on a chunk without     *)
(* .get.  An empty object or string as `chunks` has length 0 and no item.  *)
SchemaRaises(d) ==
    \/ ~IsDict(d)
    \/ ~IsList(GetD(d, "chunks", JList(<<>>))) /\ Get(d, "chunks") \notin {EmptyObj, JStr("")}
    \/ \E i \in 1..Len(ChunksOf(d)) :
           ~IsDict(ChunksOf(d)[i]) \/ ChunkSchemaRaises(ChunksOf(d)[i])

VerifySchema ==
    /\ pc = "schema"
    /\ calls' = Append(calls, "verify_schema")
    /\ IF SchemaRaises(data)
       THEN Crash /\ UNCHANGED report
       ELSE /\ report' = [report EXCEPT !.total_chunks = Len(ChunksOf(data)),
                                        !.schema_errors = @ \o verify_schema(data)]
            /\ pc' = "structure"
            /\ UNCHANGED <<raised, exit_status>>
    /\ UNCHANGED <<json_in, pdf_in, data, pdf_text, returned>>
    /\ UNCHANGED split_vars

\* a variant of verify_structure that sorts the chunk list in place: chunks.sort(key=...)
VerifyStructure_sorting_in_place ==
    /\ pc = "structure"
    /\ calls' = Append(calls, "verify_structure")
    /\ LET r == verify_structure(data)
       IN  /\ report' = [report EXCEPT !.structure_errors = @ \o r.errors]
           /\ IF r.raised
              THEN Crash /\ UNCHANGED data
              ELSE /\ data' = JObj(("chunks" :> JList(SortChunks(ChunksOf(data)))) @@ data.v)
                   /\ pc' = IF pdf_in.kind = "none" THEN "return" ELSE "pdf"
                   /\ UNCHANGED <<raised, exit_status>>
    /\ UNCHANGED <<json_in, pdf_in, pdf_text, returned>>
    /\ UNCHANGED split_vars

VerifyStructure ==
    /\ pc = "structure"
    /\ calls' = Append(calls, "verify_structure")
    /\ LET r == verify_structure(data)
       IN  /\ report' = [report EXCEPT !.structure_errors = @ \o r.errors]
           /\ IF r.raised
              THEN Crash
              ELSE /\ pc' = IF pdf_in.kind = "none" THEN "return" ELSE "pdf"
                   /\ UNCHANGED <<raised, exit_status>>
    /\ UNCHANGED <<json_in, pdf_in, data, pdf_text, returned>>
    /\ UNCHANGED split_vars

ExtractPdfText ==
    /\ pc = "pdf"
    /\ calls' = Append(calls, "_extract_pdf_text")
    /\ LET r == extract_pdf_text(pdf_in, data)
       IN  IF r.raised
           THEN Crash /\ UNCHANGED pdf_text
           ELSE /\ pdf_text' = r.text
                /\ pc' = IF IsNone(r.text) THEN "return" ELSE "coverage"
                /\ UNCHANGED <<raised, exit_status>>
    /\ UNCHANGED <<json_in, pdf_in, data, report, returned>>
    /\ UNCHANGED split_vars

VerifyCoverage ==
    /\ pc = "coverage"
    /\ calls' = Append(calls, "verify_coverage")
    /\ LET r == verify_coverage(pdf_text.v, data)
       IN  IF r.raised
           THEN Crash /\ UNCHANGED report
           ELSE /\ report' = [report EXCEPT !.coverage = Some(r.result)]
                /\ pc' = "numerics"
                /\ UNCHANGED <<raised, exit_status>>
    /\ UNCHANGED <<json_in, pdf_in, data, pdf_text, returned>>
    /\ UNCHANGED split_vars

(* a variant of VerifyNumerics whose early return on a text without        *)
(* numeric pattern leaves report.numeric unset.                            *)
VerifyNumerics_unset_without_patterns ==
    /\ pc = "numerics"
    /\ calls' = Append(calls, "verify_numerics")
    /\ LET r == verify_numerics(pdf_text.v, data)
       IN  IF r.raised
           THEN Crash /\ UNCHANGED report
           ELSE /\ report' = IF r.result.total_patterns = 0 THEN report
                             ELSE [report EXCEPT !.numeric = Some(r.result)]
                /\ pc' = "return"
                /\ UNCHANGED <<raised, exit_status>>
    /\ UNCHANGED <<json_in, pdf_in, data, pdf_text, returned>>
    /\ UNCHANGED split_vars

(* a variant of VerifyNumerics that obtains the source text itself: it     *)
(* calls _extract_pdf_text again instead of taking verify's pdf_text.      *)
VerifyNumerics_extracting_again ==
    /\ pc = "numerics"
    /\ calls' = calls \o <<"_extract_pdf_text", "verify_numerics">>
    /\ LET t == extract_pdf_text(pdf_in, data)
           r == verify_numerics(t.text.v, data)
       IN  IF r.raised
           THEN Crash /\ UNCHANGED report
           ELSE /\ report' = [report EXCEPT !.numeric = Some(r.result)]
                /\ pc' = "return"
                /\ UNCHANGED <<raised, exit_status>>
    /\ UNCHANGED <<json_in, pdf_in, data, pdf_text, returned>>
    /\ UNCHANGED split_vars

VerifyNumerics ==
    /\ pc = "numerics"
    /\ calls' = Append(calls, "verify_numerics")
    /\ LET r == verify_numerics(pdf_text.v, data)
       IN  IF r.raised
           THEN Crash /\ UNCHANGED report
           ELSE /\ report' = [report EXCEPT !.numeric = Some(r.result)]
                /\ pc' = "return"
                /\ UNCHANGED <<raised, exit_status>>
    /\ UNCHANGED <<json_in, pdf_in, data, pdf_text, returned>>
    /\ UNCHANGED split_vars

\* verify(): return report
ReturnReport ==
    /\ pc = "return"
    /\ returned' = "report"
    /\ pc' = "main"
    /\ UNCHANGED <<json_in, pdf_in, data, report, pdf_text, raised, exit_status, calls>>
    /\ UNCHANGED split_vars

\* a variant of Main without the `if report is None: sys.exit(1)` branch
Main_without_none_exit ==
    /\ pc = "main"
    /\ exit_status' = IF returned = "none" \/ all_ok(report) THEN 0 ELSE 1
    /\ pc' = "done"
    /\ UNCHANGED <<json_in, pdf_in, data, report, pdf_text, returned, raised, calls>>
    /\ UNCHANGED split_vars

(* main() after verify(): sys.exit(1) on None; else print_report and the   *)
(* optional exports, then sys.exit(1) unless report.all_ok.                *)
Main ==
    /\ pc = "main"
    /\ exit_status' = IF returned = "none" THEN 1
                      ELSE IF all_ok(report) THEN 0 ELSE 1
    /\ pc' = "done"
    /\ UNCHANGED <<json_in, pdf_in, data, report, pdf_text, returned, raised, calls>>
    /\ UNCHANGED split_vars

Next ==
    \/ LoadChunks
    \/ VerifySchema
    \/ VerifyStructure
    \/ ExtractPdfText
    \/ VerifyCoverage
    \/ VerifyNumerics
    \/ ReturnReport
    \/ Main

(***************************************************************************)
(* The inputs of a run.  Every data set is built from well-formed chunks   *)
(* (every required field present and valid, chunk_seq 0..n-1, a correct    *)
(* prev/next chain) by varying one aspect at a time.                       *)
(***************************************************************************)
MaxChunks == 3       \* chunks in a collection
MaxSeq == 3          \* the largest chunk_seq value tried
MaxSplitTotal == 3   \* the largest split_total of a well-formed split group
MaxPage == 2         \* the largest page number tried

\* a marker for "the key is not in the object" in the builders below
Absent == [t |-> "absent", v |-> 0]

\* the object d with d[k] = val, or without the key k when val is Absent
Put(d, k, val) ==
    IF val.t = "absent" THEN JObj([x \in DOMAIN d.v \ {k} |-> d.v[x]])
    ELSE JObj((k :> val) @@ d.v)

ChunkName(i) == "c" \o IdxStr(i)

Span(ds, de) ==
    JObj([ source_pdf |-> JStr("src.pdf"), pdf_page_start |-> JInt(1),
           pdf_page_end |-> JInt(1), doc_page_start |-> JInt(ds),
           doc_page_end |-> JInt(de) ])

\* the i-th of n well-formed chunks
BaseChunk(i, n) ==
    JObj([ id |-> JStr(ChunkName(i)),
           chunk_id |-> JStr(ChunkName(i)),
           doc_id |-> JStr("doc"),
           section_index |-> JInt(0),
           chunk_seq |-> JInt(i - 1),
           section_id |-> JStr("s1"),
           chunk_type |-> JStr("section"),
           section_path |-> JList(<<JStr(<<"S">>)>>),
           section_title |-> JStr("title"),
           page_start |-> JInt(1),
           page_end |-> JInt(1),
           locators |-> JObj([spans |-> JList(<<Span(1, 1)>>)]),
           context_prefix |-> JStr("prefix"),
           text |-> JStr(<<"a", "b">>),
           split |-> Null,
           prev_chunk_id |-> IF i = 1 THEN Null ELSE JStr(ChunkName(i - 1)),
           next_chunk_id |-> IF i = n THEN Null ELSE JStr(ChunkName(i + 1)),
           images |-> JList(<<>>),
           tables |-> JList(<<>>),
           tables_data |-> EmptyObj,
           references |-> JList(<<>>),
           equations |-> JList(<<>>),
           keywords |-> JList(<<JStr("kw")>>) ])

\* the top-level object {"chunks": [...]}
MakeData(chunks) == JObj([chunks |-> JList(chunks)])

\* n well-formed chunks, the i-th with field k set to vals[i]
VaryField(n, k, vals) == MakeData([i \in 1..n |-> Put(BaseChunk(i, n), k, vals[i])])

\* collections of 0..MaxChunks well-formed chunks
BaseData == { MakeData([i \in 1..n |-> BaseChunk(i, n)]) : n \in 0..MaxChunks }

\* chunk_seq: every assignment of an absent key or a value 0..MaxSeq
SeqChoices == {Absent} \cup {JInt(k) : k \in 0..MaxSeq}
SeqData ==
    UNION { { VaryField(n, "chunk_seq", sv) : sv \in [1..n -> SeqChoices] }
            : n \in 1..MaxChunks }

\* split: a well-formed group of T chunks and its one-step variations
SplitObj(gid, idx, total) ==
    JObj([ group_id |-> JStr(gid), split_index |-> JInt(idx),
           split_total |-> JInt(total), logical_range |-> JStr("1-2") ])
ValidGroup(T) == [i \in 1..T |-> SplitObj("g1", i - 1, T)]
RemoveAt(q, i) == [k \in 1..(Len(q) - 1) |-> IF k < i THEN q[k] ELSE q[k + 1]]
SplitVariants(T) ==
    {SplitObj("g1", j, tot) : j \in 0..T, tot \in {T, T + 1}}
    \cup {Null, JStr("g1/0"), SplitObj("g2", 0, 1)}
    \cup {Put(SplitObj("g1", 0, T), k, Absent) :
            k \in {"group_id", "split_index", "split_total", "logical_range"}}
    \cup {Put(SplitObj("g1", 0, T), "split_total", JList(<<>>))}
SplitLists(T) ==
    {ValidGroup(T)}
    \cup {RemoveAt(ValidGroup(T), i) : i \in 1..T}
    \cup {Append(ValidGroup(T), x) : x \in SplitVariants(T)}
    \cup {[ValidGroup(T) EXCEPT ![i] = x] : i \in 1..T, x \in SplitVariants(T)}
SplitData ==
    UNION { { VaryField(Len(q), "split", q) : q \in SplitLists(T) }
            : T \in 1..MaxSplitTotal }

\* locators.spans and page_start / page_end: one chunk, one or two spans
SpanChoices ==
    {Span(ds, de) : ds \in 1..MaxPage, de \in 1..MaxPage}
    \cup {Put(Span(1, 1), "doc_page_start", Absent), Put(Span(1, 1), "doc_page_end", Absent),
          Put(Put(Span(1, 1), "doc_page_start", Absent), "doc_page_end", Absent),
          JInt(7)}
SpanLists == {<<s>> : s \in SpanChoices} \cup {<<s1, s2>> : s1 \in SpanChoices, s2 \in SpanChoices}
PageChoices == {Null} \cup {JInt(p) : p \in 1..MaxPage}
PageData ==
    { MakeData(<<Put(Put(Put(BaseChunk(1, 1),
                             "locators", JObj([spans |-> JList(spans)])),
                         "page_start", ps),
                     "page_end", pe)>>)
      : spans \in SpanLists, ps \in PageChoices, pe \in PageChoices }

\* one chunk with one field absent, null or of another type
ChunkFieldNames ==
    {REQUIRED_CHUNK_FIELDS[k] : k \in 1..Len(REQUIRED_CHUNK_FIELDS)}
    \cup {"ontology_keywords", "domain_entities", "applicability", "normative_values",
          "embedding", "table_oversized"}
FieldChoices == {Absent, Null, JInt(7), EmptyObj, JList(<<>>)}
FieldData == { VaryField(1, k, <<val>>) : k \in ChunkFieldNames, val \in FieldChoices }

\* references: 1..MaxChunks chunks, each with the same single entry
RefChoices ==
    { Put(Put(Put(EmptyObj, "target", tg), "type", ty), "relation", rel)
      : tg \in {Absent, JStr("Pt.3 Ch.1")},
        ty \in {Absent, JStr("internal"), JStr("cross_part"), JStr("bogus")},
        rel \in {Absent, Null, JStr("requires"), JStr("bogus")} }
    \cup {JInt(7)}
RefData ==
    { VaryField(n, "references", [i \in 1..n |-> JList(<<ref>>)])
      : n \in 1..MaxChunks, ref \in RefChoices }

\* JSON that loads but is no collection of chunk objects
OddData ==
    { Null, JList(<<>>), EmptyObj, JObj([chunks |-> Null]), JObj([chunks |-> EmptyObj]),
      MakeData(<<JInt(1)>>), MakeData(<<BaseChunk(1, 2), JStr("x")>>) }

\* the entries of ontology_keywords and domain_entities
KgEntry(ty) == JObj([mention |-> JStr("hull"), canonical |-> JStr("hull"), type |-> ty])
KgEntries ==
    { JInt(7), EmptyObj, JObj([mention |-> JStr("hull")]) }
    \cup { KgEntry(ty) : ty \in {JStr("material"), JStr("bogus"), Null, JInt(7),
                                  JList(<<JStr("material")>>), JList(<<>>)} }

\* one well-formed chunk with one entry in a knowledge-graph extension list
KgData ==
    { VaryField(1, fld, <<JList(<<e>>)>>)
      : fld \in {"ontology_keywords", "domain_entities"}, e \in KgEntries }
    \cup { VaryField(1, "normative_values", <<JList(<<JInt(7)>>)>>),
           VaryField(1, "applicability", <<JObj([ship_types |-> JInt(7)])>>) }

\* the values of a link in a collection of n chunks: null, no key, no chunk, a chunk
LinkChoices(n) ==
    { Null, Absent, JStr("zz"), JInt(7), JList(<<>>) } \cup { JStr(ChunkName(i)) : i \in 1..n }

\* n well-formed chunks, the k-th with the links p and q
LinkVariant(n, k, p, q) ==
    MakeData([i \in 1..n |->
                 IF i = k
                 THEN Put(Put(BaseChunk(i, n), "prev_chunk_id", p), "next_chunk_id", q)
                 ELSE BaseChunk(i, n)])

\* collections in which one chunk carries other links; collections without links
LinkData ==
    UNION { { LinkVariant(n, k, p, q) : k \in 1..n, p \in LinkChoices(n), q \in LinkChoices(n) }
            : n \in 1..MaxChunks }
    \cup { MakeData([i \in 1..n |->
                        Put(Put(BaseChunk(i, n), "prev_chunk_id", Null), "next_chunk_id", Null)])
           : n \in 2..MaxChunks }
    \cup { MakeData(<<Put(BaseChunk(1, 2), "prev_chunk_id", p),
                       Put(BaseChunk(2, 2), "next_chunk_id", q)>>)
           : p \in {Null, JStr("c2"), JList(<<>>)}, q \in {Null, JStr("c1"), JStr("zz")} }

NoPdf == [kind |-> "none", pages |-> <<>>]

\* the runs without a source document
\* tables_data: one or two named tables, each a non-object or an object with some of its fields
TableFields == <<"title", "columns", "rows">>
TableChoices ==
    {JInt(7), Null, JStr("x"), JList(<<>>)}
    \cup { JObj([f \in have |-> IF f = "title" THEN JStr("x") ELSE JList(<<>>)])
           : have \in SUBSET {TableFields[k] : k \in 1..Len(TableFields)} }
TableData ==
    { VaryField(n, "tables_data", [i \in 1..n |-> JObj([nm \in {"T1"} |-> v])])
      : n \in 1..2, v \in TableChoices }
    \cup { VaryField(1, "tables_data", <<JObj([nm \in {"T1", "T2"} |-> IF nm = "T1" THEN v ELSE w])>>)
           : v \in {JInt(7), JObj([title |-> JStr("x")])},
             w \in {Null, JObj([title |-> JStr("x"), columns |-> JList(<<>>), rows |-> JList(<<>>)]),
                     JObj([rows |-> JList(<<>>)])} }

PlainRuns ==
    { [json |-> [kind |-> "ok", data |-> d], pdf |-> NoPdf]
      : d \in BaseData \cup SeqData \cup SplitData \cup PageData \cup FieldData
              \cup RefData \cup KgData \cup LinkData \cup TableData \cup OddData }
    \cup { [json |-> [kind |-> k, data |-> Null], pdf |-> NoPdf]
           : k \in {"missing", "malformed", "unreadable"} }

(***************************************************************************)
(* Runs with a source document.  Source lines and chunk texts are taken    *)
(* from a small vocabulary; a page is 1..MaxLines lines.                   *)
(***************************************************************************)
MaxLines == 2        \* lines on a page of the source document

\* "a b c d e.": a sentence of five words
LineAE ==
    <<"a", " ", "b", " ", "c", " ", "d", " ", "e", ".">>
\* "f g h i j.": another sentence of five words
LineFJ ==
    <<"f", " ", "g", " ", "h", " ", "i", " ", "j", ".">>
\* "x y.": a sentence of fewer than five words
LineShort ==
    <<"x", " ", "y", ".">>
\* "p q > 0.5 mm r s.": an operator + number + unit assertion between context words
LineMm ==
    <<"p", " ", "q", " ", ">", " ", "0", ".", "5", " ", "m", "m", " ", "r", " ", "s", ".">>
\* "p q > 0.5 cm r s.": the same assertion with another unit
LineCm ==
    <<"p", " ", "q", " ", ">", " ", "0", ".", "5", " ", "c", "m", " ", "r", " ", "s", ".">>
\* "k 7 % u v w.": a number with a symbol unit
LinePct ==
    <<"k", " ", "7", " ", "%", " ", "u", " ", "v", " ", "w", ".">>

SourceLines == {LineAE, LineFJ, LineShort, LineMm, LineCm, LinePct}

RECURSIVE JoinLines(_, _)
\* the lines q[1..n], each followed by a line break
JoinLines(q, n) == IF n = 0 THEN <<>> ELSE JoinLines(q, n - 1) \o q[n] \o <<"\n">>

\* the pages: every sequence of 1..MaxLines source lines
Pages ==
    UNION { { JoinLines(q, n) : q \in [1..n -> SourceLines] } : n \in 1..MaxLines }

\* documents of two pages, of no page, of a page without text
OddDocs ==
    { [kind |-> "doc", pages |-> <<LineShort \o <<"\n">>, p>>] : p \in {LineAE, LineMm} }
    \cup { [kind |-> "doc", pages |-> <<>>], [kind |-> "doc", pages |-> <<<<" ", "\n">>>>] }

\* the documents: one page; two pages; no page; a page without text
PdfDocs == { [kind |-> "doc", pages |-> <<p>>] : p \in Pages } \cup OddDocs

\* the documents of one line, and the odd ones
OneLineDocs ==
    { [kind |-> "doc", pages |-> <<l \o <<"\n">>>>] : l \in SourceLines } \cup OddDocs

\* --pdf given, but the text cannot be obtained
PdfFailures == { [kind |-> k, pages |-> <<>>] : k \in {"no_fitz", "open_fails"} }

\* the chunk texts
ChunkTexts ==
    { LineAE, LineAE \o <<" ">> \o LineFJ, LineMm, LineAE \o <<" ">> \o LineCm }

\* one well-formed chunk with the given text
TextData == { VaryField(1, "text", <<JStr(t)>>) : t \in ChunkTexts }

\* one chunk with the given text and a schema error; a structural error; a schema warning
FlawedTextData ==
    UNION { { MakeData(<<Put(Put(BaseChunk(1, 1), "text", JStr(t)), "chunk_type", JStr("bogus"))>>),
              MakeData(<<Put(Put(BaseChunk(1, 1), "text", JStr(t)), "chunk_seq", JInt(1))>>),
              MakeData(<<Put(Put(BaseChunk(1, 1), "text", JStr(t)), "keywords", JList(<<>>))>>) }
            : t \in ChunkTexts }

\* one chunk whose span names the pages from..to of the source document
PagedChunk(from, to) ==
    Put(Put(BaseChunk(1, 1), "text", JStr(LineAE)),
        "locators",
        JObj([spans |-> JList(<<Put(Put(Span(1, 1), "pdf_page_start", from),
                                    "pdf_page_end", to)>>)]))

\* data the page-range loop and the corpus builders meet
PdfOddData ==
    { MakeData(<<PagedChunk(JInt(1), JInt(2))>>),
      MakeData(<<PagedChunk(JInt(2), JInt(2))>>),
      MakeData(<<PagedChunk(JInt(5), JInt(5))>>),
      MakeData(<<PagedChunk(Null, Null)>>),
      MakeData(<<PagedChunk(Absent, Absent)>>),
      MakeData(<<PagedChunk(JStr("1"), JInt(1))>>),
      MakeData(<<>>),
      VaryField(1, "locators", <<Null>>),
      VaryField(1, "locators", <<Absent>>),
      VaryField(1, "locators", <<JList(<<>>)>>),
      VaryField(1, "locators", <<JObj([spans |-> JList(<<JInt(7)>>)])>>),
      VaryField(1, "text", <<Null>>),
      VaryField(1, "text", <<Absent>>),
      VaryField(1, "section_path", <<Null>>),
      VaryField(1, "section_path", <<Absent>>),
      VaryField(1, "split", <<JStr("g1/0")>>) }

\* "a b c d <x>.": a sentence of five words that ends with the word x
LineABCD(x) ==
    <<"a", " ", "b", " ", "c", " ", "d", " ", x, ".">>

\* the last words of ten sentences with ten distinct trailing-five-word keys
TenWords == <<"e", "f", "g", "h", "i", "j", "k", "l", "m", "n">>

RECURSIVE TenLines(_, _)
\* the first n of the ten sentences, each followed by the separator sep
TenLines(n, sep) ==
    IF n = 0 THEN <<>> ELSE TenLines(n - 1, sep) \o LineABCD(TenWords[n]) \o sep

\* a document of ten sentences against chunk text holding 8, 9 or 10 of them
TenSentenceRuns ==
    { [json |-> [kind |-> "ok", data |-> VaryField(1, "text", <<JStr(TenLines(k, <<" ">>))>>)],
       pdf |-> [kind |-> "doc", pages |-> <<TenLines(10, <<"\n">>)>>]]
      : k \in 8..10 }

\* "<w1> <w2> > 0.5 mm <w3> <w4>.": the assertion > 0.5 mm between the given context words
LineBetween(w1, w2, w3, w4) ==
    w1 \o <<" ">> \o w2 \o <<" ", ">", " ", "0", ".", "5", " ", "m", "m", " ">>
       \o w3 \o <<" ">> \o w4 \o <<".">>

\* "t u > 0.5 mm v w.": the value of LineMm between other context words
LineTU == LineBetween(<<"t">>, <<"u">>, <<"v">>, <<"w">>)
\* "ab c > 0.5 mm r s." and "a bc > 0.5 mm r s.": context words that join to the same string
LineAbC == LineBetween(<<"a", "b">>, <<"c">>, <<"r">>, <<"s">>)
LineABc == LineBetween(<<"a">>, <<"b", "c">>, <<"r">>, <<"s">>)

(* documents that repeat one numeric value between different context      *)
(* words, against chunk text holding the first, the second or both         *)
ContextRuns ==
    { [json |-> [kind |-> "ok", data |-> VaryField(1, "text", <<JStr(t)>>)],
       pdf |-> [kind |-> "doc", pages |-> <<JoinLines(doc, 2)>>]]
      : t \in {LineMm, LineTU, LineMm \o <<" ">> \o LineTU, LineAbC},
        doc \in {<<LineMm, LineTU>>, <<LineAbC, LineABc>>} }

\* "101. a b c d e.": a clause number followed by its text
LineClause ==
    <<"1", "0", "1", ".", " ", "a", " ", "b", " ", "c", " ", "d", " ", "e", ".">>
\* "a b (c). d e f.": a period after a closing bracket
LineBracket ==
    <<"a", " ", "b", " ", "(", "c", ")", ".", " ", "d", " ", "e", " ", "f", ".">>
\* "a b. c d e f g.": two sentences on one line
LineTwo ==
    <<"a", " ", "b", ".", " ", "c", " ", "d", " ", "e", " ", "f", " ", "g", ".">>
\* "a b c d 0.5.": a decimal number before the final period
LineDecimalEnd ==
    <<"a", " ", "b", " ", "c", " ", "d", " ", "0", ".", "5", ".">>
\* "a .b c > . d": periods that no letter, digit or closing bracket precedes
LineNoLead ==
    <<"a", " ", ".", "b", " ", "c", " ", ">", ".", " ", "d">>

\* documents whose lines hold periods in every position the segmenter tells apart
SegmenterRuns ==
    { [json |-> [kind |-> "ok", data |-> VaryField(1, "text", <<JStr(LineAE)>>)],
       pdf |-> [kind |-> "doc", pages |-> <<JoinLines(<<l, LineAE>>, 2)>>]]
      : l \in {LineClause, LineBracket, LineTwo, LineDecimalEnd, LineNoLead} }

PdfRuns ==
    { [json |-> [kind |-> "ok", data |-> d], pdf |-> doc]
      : d \in TextData, doc \in PdfDocs \cup PdfFailures }
    \cup { [json |-> [kind |-> "ok", data |-> d], pdf |-> doc]
           : d \in FlawedTextData, doc \in OneLineDocs \cup PdfFailures }
    \cup TenSentenceRuns
    \cup ContextRuns
    \cup SegmenterRuns
    \cup { [json |-> [kind |-> "ok", data |-> d], pdf |-> doc]
           : d \in PdfOddData,
             doc \in PdfFailures
                      \cup { [kind |-> "doc", pages |-> <<LineAE \o <<"\n">>, LineFJ \o <<"\n">>>>] } }
    \cup { [json |-> [kind |-> k, data |-> Null], pdf |-> [kind |-> "doc", pages |-> <<LineAE>>]]
           : k \in {"missing", "malformed"} }

Runs == PlainRuns \cup PdfRuns

Init ==
    /\ \E run \in Runs : json_in = run.json /\ pdf_in = run.pdf
    /\ pc = "start"
    /\ data = Null
    /\ report = NewReport
    /\ pdf_text = Null
    /\ returned = "nothing"
    /\ raised = FALSE
    /\ exit_status = -1
    /\ calls = <<>>
    /\ split_pc = "idle"
    /\ page_count = 0
    /\ chunk_size = 0
    /\ num_files = 0
    /\ next_i = 0
    /\ created = <<>>
    /\ saved = <<>>
    /\ split_result = Null

Spec == Init /\ [][Next]_<<vars, split_vars>>

(***************************************************************************)
(* Several runs on one verifier instance: the caller of verify() calls it  *)
(* again after it has returned or raised.  The instance holds no           *)
(* attribute; every run builds its report, its dataset and its source text *)
(* anew.  The history in calls runs on over the whole sequence.            *)
(***************************************************************************)
MaxRuns == 2         \* runs on one verifier instance

\* the runs started on the instance so far
RunsStarted == Cardinality({ i \in 1..Len(calls) : calls[i] = "load_chunks" })

\* the inputs of the runs of a sequence
SequenceRuns ==
    { [json |-> [kind |-> "ok", data |-> MakeData(<<BaseChunk(1, 2), BaseChunk(2, 2)>>)],
       pdf |-> NoPdf],
      [json |-> [kind |-> "ok", data |-> VaryField(2, "chunk_seq", <<JInt(0), JInt(2)>>)],
       pdf |-> NoPdf],
      [json |-> [kind |-> "ok", data |-> VaryField(1, "keywords", <<JList(<<>>)>>)],
       pdf |-> NoPdf],
      [json |-> [kind |-> "ok",
                 data |-> MakeData(<<Put(Put(BaseChunk(1, 1), "text", JStr(LineAE)),
                                         "chunk_type", JStr("bogus"))>>)],
       pdf |-> [kind |-> "doc", pages |-> <<JoinLines(<<LineAE, LineFJ>>, 2)>>]],
      [json |-> [kind |-> "ok", data |-> VaryField(1, "text", <<JStr(LineMm)>>)],
       pdf |-> [kind |-> "doc", pages |-> <<JoinLines(<<LineMm, LineCm>>, 2)>>]],
      [json |-> [kind |-> "ok", data |-> VaryField(1, "text", <<JStr(LineAE)>>)],
       pdf |-> [kind |-> "open_fails", pages |-> <<>>]],
      [json |-> [kind |-> "ok", data |-> MakeData(<<JInt(1)>>)], pdf |-> NoPdf],
      [json |-> [kind |-> "ok", data |-> VaryField(1, "split", <<JStr("g1/0")>>)],
       pdf |-> NoPdf],
      [json |-> [kind |-> "missing", data |-> Null], pdf |-> NoPdf],
      [json |-> [kind |-> "unreadable", data |-> Null], pdf |-> NoPdf] }

\* a variant of the next call of verify() that goes on with the report of the last run
VerifyAgain_keeping_report ==
    /\ pc = "main" \/ (pc = "done" /\ raised)
    /\ RunsStarted < MaxRuns
    /\ \E run \in SequenceRuns : json_in' = run.json /\ pdf_in' = run.pdf
    /\ pc' = "start"
    /\ data' = Null
    /\ report' = report
    /\ pdf_text' = Null
    /\ returned' = "nothing"
    /\ raised' = FALSE
    /\ exit_status' = -1
    /\ UNCHANGED calls
    /\ UNCHANGED split_vars

(* the caller calls verify() once more on the same instance, after it has  *)
(* returned or raised: a new VerificationReport and new locals.            *)
VerifyAgain ==
    /\ pc = "main" \/ (pc = "done" /\ raised)
    /\ RunsStarted < MaxRuns
    /\ \E run \in SequenceRuns : json_in' = run.json /\ pdf_in' = run.pdf
    /\ pc' = "start"
    /\ data' = Null
    /\ report' = NewReport
    /\ pdf_text' = Null
    /\ returned' = "nothing"
    /\ raised' = FALSE
    /\ exit_status' = -1
    /\ UNCHANGED calls
    /\ UNCHANGED split_vars

InitRuns ==
    /\ \E run \in SequenceRuns : json_in = run.json /\ pdf_in = run.pdf
    /\ pc = "start"
    /\ data = Null
    /\ report = NewReport
    /\ pdf_text = Null
    /\ returned = "nothing"
    /\ raised = FALSE
    /\ exit_status = -1
    /\ calls = <<>>
    /\ split_pc = "idle"
    /\ page_count = 0
    /\ chunk_size = 0
    /\ num_files = 0
    /\ next_i = 0
    /\ created = <<>>
    /\ saved = <<>>
    /\ split_result = Null

NextRuns ==
    \/ Next
    \/ VerifyAgain

SpecRuns == InitRuns /\ [][NextRuns]_<<vars, split_vars>>

(* verify() as a function of its two arguments alone: [raised, returned,   *)
(* report], with the report as far as it was built when an exception left  *)
(* the call.                                                               *)
verify(json_file, pdf) ==
    LET Out(ra, ret, rep) == [raised |-> ra, returned |-> ret, report |-> rep]
        l == load_chunks(json_file)
        d == l.data
        r1 == [NewReport EXCEPT !.total_chunks = Len(ChunksOf(d)),
                                !.schema_errors = verify_schema(d)]
        st == verify_structure(d)
        r2 == [r1 EXCEPT !.structure_errors = st.errors]
        x == extract_pdf_text(pdf, d)
        cov == verify_coverage(x.text.v, d)
        r3 == [r2 EXCEPT !.coverage = Some(cov.result)]
        num == verify_numerics(x.text.v, d)
        r4 == [r3 EXCEPT !.numeric = Some(num.result)]
    IN  IF l.raised THEN Out(TRUE, "nothing", NewReport)
        ELSE IF IsNone(d) THEN Out(FALSE, "none", NewReport)
        ELSE IF SchemaRaises(d) THEN Out(TRUE, "nothing", NewReport)
        ELSE IF st.raised THEN Out(TRUE, "nothing", r2)
        ELSE IF pdf.kind = "none" THEN Out(FALSE, "report", r2)
        ELSE IF x.raised THEN Out(TRUE, "nothing", r2)
        ELSE IF IsNone(x.text) THEN Out(FALSE, "report", r2)
        ELSE IF cov.raised THEN Out(TRUE, "nothing", r2)
        ELSE IF num.raised THEN Out(TRUE, "nothing", r3)
        ELSE Out(FALSE, "report", r4)

(***************************************************************************)
(* split_pdf.py: one call of split_pdf(pdf_path, chunk_size=...) on a      *)
(* document of page_count pages.  Paths and file names are sequences of    *)
(* one-character strings; pages are fitz's 0-based page indices.           *)
(***************************************************************************)
MaxPageCount == 12   \* pages of the document given to split_pdf
MaxChunkSize == 4    \* the largest chunk_size argument

\* the pdf_path argument: "in/doc_1.pdf"
PdfPath == <<"i", "n", "/", "d", "o", "c", "_", "1", ".", "p", "d", "f">>

\* the largest index of character c in s, 0 when c does not occur
LastIndexOf(s, c) ==
    IF \E k \in 1..Len(s) : s[k] = c
    THEN CHOOSE k \in 1..Len(s) : s[k] = c /\ \A j \in (k + 1)..Len(s) : s[j] # c
    ELSE 0

\* os.path.dirname(path)
Dirname(path) == SubSeq(path, 1, LastIndexOf(path, "/") - 1)

\* os.path.basename(path)
Basename(path) == SubSeq(path, LastIndexOf(path, "/") + 1, Len(path))

\* os.path.splitext(name)[0]
SplitExtRoot(name) ==
    IF LastIndexOf(name, ".") > 1 THEN SubSeq(name, 1, LastIndexOf(name, ".") - 1) ELSE name

\* os.path.join(dir, name)
JoinPath(dir, name) == IF dir = <<>> THEN name ELSE dir \o <<"/">> \o name

\* the character of the decimal digit d
DigitChar(d) == <<"0", "1", "2", "3", "4", "5", "6", "7", "8", "9">>[d + 1]

RECURSIVE DecimalString(_)
\* str(n) of an integer n >= 0
DecimalString(n) ==
    IF n < 10 THEN <<DigitChar(n)>> ELSE Append(DecimalString(n \div 10), DigitChar(n % 10))

\* f"{n:04d}": str(n) with zeros before it up to four characters
Format04d(n) ==
    LET digits == DecimalString(n)
    IN  [k \in 1..(IF Len(digits) < 4 THEN 4 - Len(digits) ELSE 0) |-> "0"] \o digits

\* math.ceil(total / chunk_size)
NumFiles(total, size) == (total + size - 1) \div size

\* a variant of RangeEnd without the cap at the last page: start + chunk_size - 1
RangeEnd_without_min(start, size, total) == start + size - 1

\* end = min(start + chunk_size - 1, total - 1)
RangeEnd(start, size, total) ==
    IF start + size - 1 < total - 1 THEN start + size - 1 ELSE total - 1

\* f"{basename}_{start + 1:04d}-{end + 1:04d}.pdf"
FileName(basename, start, end) ==
    basename \o <<"_">> \o Format04d(start + 1) \o <<"-">> \o Format04d(end + 1)
             \o <<".", "p", "d", "f">>

\* doc = fitz.open(pdf_path); total = doc.page_count; the early return; num_files
SplitOpen ==
    /\ split_pc = "open"
    /\ IF page_count <= chunk_size
       THEN /\ split_result' = JList(<<PdfPath>>)
            /\ split_pc' = "done"
            /\ UNCHANGED num_files
       ELSE /\ num_files' = NumFiles(page_count, chunk_size)
            /\ split_pc' = "loop"
            /\ UNCHANGED split_result
    /\ UNCHANGED <<page_count, chunk_size, next_i, created, saved>>
    /\ UNCHANGED vars

\* one pass of `for i in range(num_files)`: the pages start..end are saved under filepath
SplitSave ==
    /\ split_pc = "loop"
    /\ next_i < num_files
    /\ LET start == next_i * chunk_size
           end == RangeEnd(start, chunk_size, page_count)
           filename == FileName(SplitExtRoot(Basename(PdfPath)), start, end)
           filepath == JoinPath(Dirname(PdfPath), filename)
       IN  /\ saved' = Append(saved, [path |-> filepath, pages |-> RangeList(start, end + 1)])
           /\ created' = Append(created, filepath)
    /\ next_i' = next_i + 1
    /\ UNCHANGED <<split_pc, page_count, chunk_size, num_files, split_result>>
    /\ UNCHANGED vars

\* the loop is over: doc.close(); return created
SplitReturn ==
    /\ split_pc = "loop"
    /\ next_i >= num_files
    /\ split_result' = JList(created)
    /\ split_pc' = "done"
    /\ UNCHANGED <<page_count, chunk_size, num_files, next_i, created, saved>>
    /\ UNCHANGED vars

\* a call of split_pdf on a document of 0..MaxPageCount pages; the verifier is not running
InitSplit ==
    /\ pc = "idle"
    /\ json_in = [kind |-> "missing", data |-> Null]
    /\ pdf_in = NoPdf
    /\ data = Null
    /\ report = NewReport
    /\ pdf_text = Null
    /\ returned = "nothing"
    /\ raised = FALSE
    /\ exit_status = -1
    /\ calls = <<>>
    /\ split_pc = "open"
    /\ page_count \in 0..MaxPageCount
    /\ chunk_size \in 1..MaxChunkSize
    /\ num_files = 0
    /\ next_i = 0
    /\ created = <<>>
    /\ saved = <<>>
    /\ split_result = Null

NextSplit ==
    \/ SplitOpen
    \/ SplitSave
    \/ SplitReturn

SpecSplit == InitSplit /\ [][NextSplit]_<<vars, split_vars>>

(***************************************************************************)
(* Properties of the run                                                   *)
(***************************************************************************)

\* the handler named h has been called in this run
Ran(h) == \E i \in 1..Len(calls) : calls[i] = h

\* the chunks of the loaded dataset
Chunks == ChunksOf(data)

\* the findings of the sequence q that satisfy severity = sev
OfSeverity(q, sev) == {i \in 1..Len(q) : q[i].severity = sev}

(* a gate as the documentation states it: the check was not run, or       *)
(* nothing was checked (100%), or matched / checked x 100 >= 90            *)
GateHolds(res, total, matched, skipped) ==
    \/ IsNone(res)
    \/ res.v[total] - res.v[skipped] = 0
    \/ 100 * res.v[matched] >= 90 * (res.v[total] - res.v[skipped])

\* the four conditions of an overall PASS
PassConditions ==
    /\ OfSeverity(report.schema_errors, "error") = {}
    /\ OfSeverity(report.structure_errors, "error") = {}
    /\ GateHolds(report.coverage, "total_sentences", "matched_sentences", "skipped_sentences")
    /\ GateHolds(report.numeric, "total_patterns", "matched_patterns", "skipped_patterns")

(* C1: for every run that produces a report, the overall verdict is PASS   *)
(* if and only if there is no schema finding of severity error, no         *)
(* structural finding of severity error, coverage was not run or is at     *)
(* least 90%, and the numeric check was not run or is at least 90%;        *)
(* warnings and unmatched items never change the verdict.                  *)
C1_VerdictIffFourGates ==
    returned = "report" => (all_ok(report) <=> PassConditions)

(* C1 happens: a returned report with a warning among its findings and a   *)
(* coverage check that ran is an overall PASS.                             *)
C1_Witness ==
    /\ returned = "report"
    /\ all_ok(report)
    /\ OfSeverity(report.schema_errors, "warning") # {}
    /\ ~IsNone(report.coverage)

(* C2: when the chunk JSON file is missing or malformed, the run ends      *)
(* before the schema, structure, coverage or numeric check and before the  *)
(* source-text extraction, and no report is returned.                      *)
C2_LoadFailureRunsNoCheck ==
    json_in.kind \in {"missing", "malformed"} =>
        /\ \A i \in 1..Len(calls) : calls[i] = "load_chunks"
        /\ returned # "report"
        /\ report = NewReport
        /\ IsNone(pdf_text)
        /\ (pc = "done" => returned = "none" /\ ~raised)

(* C2 happens: a run on a malformed file, with a source document given,    *)
(* has ended after load_chunks alone.                                      *)
C2_Witness ==
    /\ json_in.kind = "malformed"
    /\ pdf_in.kind = "doc"
    /\ pc = "done"
    /\ calls = <<"load_chunks">>
    /\ returned = "none"

(* C3: the exit status is 0 exactly when a report was produced and its     *)
(* overall verdict is PASS; it is non-zero when the schema, structure,     *)
(* coverage or numeric category fails and when the input fails to load.    *)
C3_ExitStatus ==
    pc = "done" =>
        /\ exit_status \in {0, 1}
        /\ (exit_status = 0 <=> returned = "report" /\ PassConditions)
        /\ (returned = "report" /\ ~PassConditions => exit_status # 0)
        /\ (json_in.kind \in {"missing", "malformed"} => exit_status # 0)

(* C3 happens: runs have ended with a report that fails one category, and  *)
(* here the failing category is coverage alone.                            *)
C3_Witness ==
    /\ pc = "done"
    /\ returned = "report"
    /\ exit_status = 1
    /\ OfSeverity(report.schema_errors, "error") = {}
    /\ OfSeverity(report.structure_errors, "error") = {}
    /\ ~IsNone(report.coverage)

\* the structural findings of one error_type, in the order they were appended
FindingsOfType(errors, ty) == SelectSeq(errors, LAMBDA e : e.error_type = ty)

\* verify_structure has run on a non-empty collection whose chunk_seq values are all integers
IntegerSeqsChecked ==
    /\ Ran("verify_structure")
    /\ Len(Chunks) > 0
    /\ \A i \in 1..Len(Chunks) : IsIntJ(Get(Chunks[i], "chunk_seq"))

\* S: the set of chunk_seq values of the collection
SeqSet == {Get(Chunks[i], "chunk_seq").v : i \in 1..Len(Chunks)}

\* seq_gap is reported exactly when `skipped` is not empty, as one finding listing it
OneGapFindingListing(skipped) ==
    LET gaps == FindingsOfType(report.structure_errors, "seq_gap")
    IN  IF skipped # {}
        THEN Len(gaps) = 1 /\ gaps[1].detail = SetToSortedSeq(skipped)
        ELSE Len(gaps) = 0

(* C4 as stated: for a non-empty collection with chunk_seq value set S, a  *)
(* seq_gap finding is emitted if and only if sorted(S) skips a value       *)
(* between min(S) and min(S)+|S|-1, |S| being the size of the set; when    *)
(* emitted it is one finding listing the missing values.                   *)
C4_GapIffSetSkipsValue ==
    IntegerSeqsChecked =>
        LET lo == CHOOSE x \in SeqSet : \A y \in SeqSet : x <= y
        IN  OneGapFindingListing((lo..(lo + Cardinality(SeqSet) - 1)) \ SeqSet)

(* C4 amended: the range is as long as the collection.  For a non-empty    *)
(* collection of n chunks with chunk_seq value set S, a seq_gap finding is *)
(* emitted if and only if some value between min(S) and min(S)+n-1 is not  *)
(* in S (hence whenever a value occurs more than once); it is one finding, *)
(* listing the values of that range that are not in S.                     *)
C4_GapIffCountRangeSkipsValue ==
    IntegerSeqsChecked =>
        LET lo == CHOOSE x \in SeqSet : \A y \in SeqSet : x <= y
        IN  OneGapFindingListing((lo..(lo + Len(Chunks) - 1)) \ SeqSet)

(* C4 happens: three chunks with two distinct contiguous values get a      *)
(* seq_gap finding that lists the value after the largest one.             *)
C4_Witness ==
    /\ IntegerSeqsChecked
    /\ Len(Chunks) = 3
    /\ SeqSet = {0, 1}
    /\ FindingsOfType(report.structure_errors, "seq_gap") # <<>>
    /\ FindingsOfType(report.structure_errors, "seq_gap")[1].detail = <<2>>

(* C5: every chunk_seq value that occurs k > 1 times gets exactly one      *)
(* duplicate_seq finding, whatever k is, and a value that occurs once gets *)
(* none.                                                                   *)
C5_OneDuplicateFindingPerValue ==
    IntegerSeqsChecked =>
        LET dups == FindingsOfType(report.structure_errors, "duplicate_seq")
        IN  /\ \A v \in SeqSet :
                 LET k == Cardinality({i \in 1..Len(Chunks) : Get(Chunks[i], "chunk_seq").v = v})
                     found == {j \in 1..Len(dups) : dups[j].subject = JInt(v)}
                 IN  Cardinality(found) = IF k > 1 THEN 1 ELSE 0
            /\ \A j \in 1..Len(dups) : IsIntJ(dups[j].subject) /\ dups[j].subject.v \in SeqSet

(* C5 happens: a value carried by three chunks was counted, and one        *)
(* duplicate_seq finding was emitted.                                      *)
C5_Witness ==
    /\ IntegerSeqsChecked
    /\ \E v \in SeqSet : Cardinality({i \in 1..Len(Chunks) : Get(Chunks[i], "chunk_seq").v = v}) = 3
    /\ Len(FindingsOfType(report.structure_errors, "duplicate_seq")) = 1

\* the error types of the split-group checks
SplitFindingTypes == {"split_total_mismatch", "split_count_mismatch", "split_index_gap"}

(* the collection is one split group with split_total = T = the number of  *)
(* its members: every chunk has a split object with the same group id and  *)
(* split_total T, and the split_index values are exactly 0..T-1            *)
IsCompleteSplitGroup(chunks) ==
    /\ Len(chunks) >= 1
    /\ \A i \in 1..Len(chunks) :
         /\ IsDict(Get(chunks[i], "split"))
         /\ JEq(GroupId(chunks[i]), GroupId(chunks[1]))
         /\ JEq(Get(Get(chunks[i], "split"), "split_total"), JInt(Len(chunks)))
         /\ IsIntJ(Get(Get(chunks[i], "split"), "split_index"))
    /\ {Get(Get(chunks[i], "split"), "split_index").v : i \in 1..Len(chunks)}
         = 0..(Len(chunks) - 1)

\* the findings of type ty that verify_structure gives on the collection `chunks`
StructureFindings(chunks, ty) == FindingsOfType(verify_structure(MakeData(chunks)).errors, ty)

\* one more member of the group of chunks[1], with the same split_total and split_index idx
ExtraMember(chunks, idx) ==
    Put(Put(Put(chunks[1], "chunk_id", JStr("extra")),
            "chunk_seq", JInt(Len(chunks))),
        "split", Put(Get(chunks[1], "split"), "split_index", JInt(idx)))

\* a complete group gets no split finding
CompleteGroupHasNoSplitFinding ==
    \A j \in 1..Len(report.structure_errors) :
        report.structure_errors[j].error_type \notin SplitFindingTypes

\* adding a member to the complete group yields split_count_mismatch
ExtraMemberYieldsCountMismatch ==
    \A idx \in 0..Len(Chunks) :
        StructureFindings(Append(Chunks, ExtraMember(Chunks, idx)), "split_count_mismatch") # <<>>

(* C6 as stated: a split group with split_total = T and exactly T members  *)
(* with indices {0..T-1} gets no split finding; removing the member of one *)
(* index yields split_index_gap; adding an extra member yields             *)
(* split_count_mismatch.                                                   *)
C6_SplitGroupRemoveAndAdd ==
    Ran("verify_structure") /\ IsCompleteSplitGroup(Chunks) =>
        /\ CompleteGroupHasNoSplitFinding
        /\ \A k \in 1..Len(Chunks) :
             StructureFindings(RemoveAt(Chunks, k), "split_index_gap") # <<>>
        /\ ExtraMemberYieldsCountMismatch

(* C6 amended: the removal yields split_index_gap when T >= 2, that is     *)
(* when a member of the group is left; the rest is as stated, the extra    *)
(* member carrying the group's split_total.                                *)
C6_SplitGroupRemoveLeavingMember ==
    Ran("verify_structure") /\ IsCompleteSplitGroup(Chunks) =>
        /\ CompleteGroupHasNoSplitFinding
        /\ (Len(Chunks) >= 2 =>
              \A k \in 1..Len(Chunks) :
                  StructureFindings(RemoveAt(Chunks, k), "split_index_gap") # <<>>)
        /\ ExtraMemberYieldsCountMismatch

(* C6 happens: a complete group of three members was checked and got no    *)
(* split finding, while the same group without its second member gets      *)
(* split_index_gap.                                                        *)
C6_Witness ==
    /\ Ran("verify_structure")
    /\ IsCompleteSplitGroup(Chunks)
    /\ Len(Chunks) = 3
    /\ CompleteGroupHasNoSplitFinding
    /\ StructureFindings(RemoveAt(Chunks, 2), "split_index_gap") # <<>>

\* verify_schema ran to its end on the loaded dataset
SchemaCompleted == Ran("verify_structure")

\* the schema findings on field fld of the chunk Chunks[i], by position in the report
SchemaFindingsOn(i, fld) ==
    {j \in 1..Len(report.schema_errors) :
        /\ report.schema_errors[j].field = fld
        /\ report.schema_errors[j].chunk_id = SchemaError(Chunks[i], fld, "", "error").chunk_id}

\* the integer values of `key` over the spans of Chunks[i] that carry one
SpanIntegers(i, key) ==
    LET spans == Get(Get(Chunks[i], "locators"), "spans").v
    IN  {spans[k].v[key].v :
            k \in {n \in 1..Len(spans) : IsDict(spans[n]) /\ IsIntJ(Get(spans[n], key))}}

\* Chunks[i] has a locators object with a non-empty spans list and a chunk_id of its own
HasSpans(i) ==
    /\ IsDict(Get(Chunks[i], "locators"))
    /\ IsList(Get(Get(Chunks[i], "locators"), "spans"))
    /\ Len(Get(Get(Chunks[i], "locators"), "spans").v) > 0
    /\ \A k \in 1..Len(Chunks) :
         k # i => ~JEq(Get(Chunks[k], "chunk_id"), Get(Chunks[i], "chunk_id"))

\* exactly one finding on fld of Chunks[i], and it is of severity error
OneErrorOn(i, fld) ==
    /\ Cardinality(SchemaFindingsOn(i, fld)) = 1
    /\ \A j \in SchemaFindingsOn(i, fld) : report.schema_errors[j].severity = "error"

(* C7 as stated: for a chunk with a non-empty spans list, a stored         *)
(* page_start that differs from min(doc_page_start over its spans) yields  *)
(* exactly one error finding on page_start, a stored page_end that differs *)
(* from max(doc_page_end over its spans) yields exactly one on page_end,   *)
(* and neither check is suppressed by whether the other fires or can be    *)
(* evaluated.                                                              *)
C7_PageChecksIndependent ==
    SchemaCompleted =>
        \A i \in 1..Len(Chunks) :
            HasSpans(i) =>
                LET starts == SpanIntegers(i, "doc_page_start")
                    ends == SpanIntegers(i, "doc_page_end")
                    page_start == Get(Chunks[i], "page_start")
                    page_end == Get(Chunks[i], "page_end")
                IN  /\ (starts # {} /\ IsIntJ(page_start)
                        /\ page_start.v # (CHOOSE m \in starts : \A x \in starts : m <= x))
                       => OneErrorOn(i, "page_start")
                    /\ (ends # {} /\ IsIntJ(page_end)
                        /\ page_end.v # (CHOOSE m \in ends : \A x \in ends : m >= x))
                       => OneErrorOn(i, "page_end")

(* both min(doc_page_start) and max(doc_page_end) of Chunks[i] can be      *)
(* evaluated: every span is an object, the doc_page_start and doc_page_end *)
(* values the spans carry are integers, and each is carried by some span   *)
ExtremaEvaluable(i) ==
    LET spans == Get(Get(Chunks[i], "locators"), "spans").v
    IN  /\ \A k \in 1..Len(spans) :
             /\ IsDict(spans[k])
             /\ \A key \in {"doc_page_start", "doc_page_end"} :
                  HasKey(spans[k], key) => IsIntJ(Get(spans[k], key))
        /\ SpanIntegers(i, "doc_page_start") # {}
        /\ SpanIntegers(i, "doc_page_end") # {}

\* the stored value of fld in Chunks[i] is an integer other than `expected`
StoredDiffers(i, fld, expected) ==
    IsIntJ(Get(Chunks[i], fld)) /\ Get(Chunks[i], fld).v # expected

(* C7 amended: the claim holds for a chunk whose spans let both min and    *)
(* max be evaluated.  Then a stored page_start that differs from           *)
(* min(doc_page_start) yields exactly one error finding on page_start, a   *)
(* stored page_end that differs from max(doc_page_end) yields exactly one  *)
(* on page_end, and neither comparison is suppressed by the other firing.  *)
C7_PageChecksIndependentWhenEvaluable ==
    SchemaCompleted =>
        \A i \in 1..Len(Chunks) :
            HasSpans(i) /\ ExtremaEvaluable(i) =>
                LET starts == SpanIntegers(i, "doc_page_start")
                    ends == SpanIntegers(i, "doc_page_end")
                IN  /\ StoredDiffers(i, "page_start", CHOOSE m \in starts : \A x \in starts : m <= x)
                       => OneErrorOn(i, "page_start")
                    /\ StoredDiffers(i, "page_end", CHOOSE m \in ends : \A x \in ends : m >= x)
                       => OneErrorOn(i, "page_end")

(* C7 happens: a chunk with two spans stores a page_start above the least  *)
(* doc_page_start and a page_end below the greatest doc_page_end, and got  *)
(* one error finding on each field.                                        *)
C7_Witness ==
    /\ SchemaCompleted
    /\ Len(Chunks) = 1
    /\ HasSpans(1) /\ ExtremaEvaluable(1)
    /\ Len(Get(Get(Chunks[1], "locators"), "spans").v) = 2
    /\ StoredDiffers(1, "page_start", 1) /\ 1 \in SpanIntegers(1, "doc_page_start")
    /\ StoredDiffers(1, "page_end", 2) /\ 2 \in SpanIntegers(1, "doc_page_end")
    /\ OneErrorOn(1, "page_start") /\ OneErrorOn(1, "page_end")

(* Scenario A: chunk_seq 0..n-1, a correct prev/next chain, every required *)
(* field present, non-empty text, and `ref` as the one references entry of *)
(* each chunk; no source document                                          *)
ScenarioA(ref) ==
    /\ json_in.kind = "ok"
    /\ pdf_in.kind = "none"
    /\ \E n \in 1..MaxChunks :
         json_in.data = VaryField(n, "references", [i \in 1..n |-> JList(<<ref>>)])

\* the run ended with a report without error findings and an overall PASS
PassedWithoutErrors ==
    /\ returned = "report"
    /\ OfSeverity(report.schema_errors, "error") = {}
    /\ OfSeverity(report.structure_errors, "error") = {}
    /\ all_ok(report)
    /\ exit_status = 0

\* {type: "internal", relation: "requires"}
ReferenceWithoutTarget ==
    JObj([type |-> JStr("internal"), relation |-> JStr("requires")])

\* {target: "Pt.3 Ch.1", type: "internal", relation: "requires"}
ReferenceWithTarget ==
    JObj([target |-> JStr("Pt.3 Ch.1"), type |-> JStr("internal"),
          relation |-> JStr("requires")])

(* C8 as stated: Scenario A with the references entry {type: "internal",   *)
(* relation: "requires"} produces zero error findings and an overall PASS. *)
C8_ScenarioAPasses ==
    pc = "done" /\ ScenarioA(ReferenceWithoutTarget) => PassedWithoutErrors

(* C8 amended: the references entry also names its target; Scenario A with *)
(* the entry {target, type: "internal", relation: "requires"} produces     *)
(* zero error findings and an overall PASS.                                *)
C8_ScenarioAWithTargetPasses ==
    pc = "done" /\ ScenarioA(ReferenceWithTarget) => PassedWithoutErrors

\* C8 happens: a run on Scenario A with three chunks has ended with PASS
C8_Witness ==
    /\ pc = "done"
    /\ ScenarioA(ReferenceWithTarget)
    /\ Len(Chunks) = 3
    /\ PassedWithoutErrors

\* the object/list fields the data model calls optional substructures
OptionalContainerFields ==
    {"images", "tables", "tables_data", "references", "equations", "keywords",
     "domain_entities", "ontology_keywords", "applicability", "normative_values"}

\* the severities of the findings on field fld of Chunks[i]
SeveritiesOn(i, fld) == {report.schema_errors[j].severity : j \in SchemaFindingsOn(i, fld)}

(* C9 as stated: a chunk in which an optional object/list field is present *)
(* with a null value gets an error finding for that field, except for      *)
(* split (no finding) and for tables_data and equations (a warning, not an *)
(* error).                                                                 *)
C9_NullOptionalFieldIsError ==
    SchemaCompleted =>
        \A i \in 1..Len(Chunks) :
            \A fld \in OptionalContainerFields \cup {"split"} :
                HasKey(Chunks[i], fld) /\ IsNone(Get(Chunks[i], fld)) =>
                    IF fld = "split" THEN SeveritiesOn(i, fld) = {}
                    ELSE IF fld \in {"tables_data", "equations"}
                    THEN SeveritiesOn(i, fld) = {"warning"}
                    ELSE "error" \in SeveritiesOn(i, fld)

(* C9 amended: a null value is skipped.  A chunk in which an optional      *)
(* object/list field is present with a null value gets no finding for that *)
(* field, as for split, except for tables_data and equations, where null   *)
(* yields a warning and no error.                                          *)
C9_NullOptionalFieldIsSkipped ==
    SchemaCompleted =>
        \A i \in 1..Len(Chunks) :
            \A fld \in OptionalContainerFields \cup {"split"} :
                HasKey(Chunks[i], fld) /\ IsNone(Get(Chunks[i], fld)) =>
                    IF fld \in {"tables_data", "equations"}
                    THEN SeveritiesOn(i, fld) = {"warning"}
                    ELSE SeveritiesOn(i, fld) = {}

(* C9 happens: a chunk whose references value is null went through the     *)
(* schema check, and the run ended with a report without any finding.      *)
C9_Witness ==
    /\ pc = "done"
    /\ returned = "report"
    /\ Len(Chunks) = 1
    /\ HasKey(Chunks[1], "references") /\ IsNone(Get(Chunks[1], "references"))
    /\ report.schema_errors = <<>>
    /\ exit_status = 0

\* the input was read and parsed into a dataset
LoadedSuccessfully == json_in.kind = "ok" /\ ~IsNone(json_in.data)

(* C10: for every input that loads successfully, the run executes every    *)
(* applicable check to completion and returns a report; violations in the  *)
(* data are recorded as findings and never abort the run.                  *)
C10_DataViolationsNeverAbort ==
    pc = "done" /\ LoadedSuccessfully =>
        /\ ~raised
        /\ returned = "report"
        /\ Ran("verify_schema") /\ Ran("verify_structure")
        /\ (pdf_in.kind # "none" => Ran("_extract_pdf_text"))
        /\ (Truthy(pdf_text) => Ran("verify_coverage") /\ Ran("verify_numerics"))

\* the exact fraction pct equals the number n
PctIs(pct, n) == pct.num = n * pct.den

(* a gate and its percentage as documented, from the counts of a result:  *)
(* pass exactly when checked = 0 or 10 * matched >= 9 * checked, the       *)
(* percentage 100 when checked = 0 and matched / checked x 100 otherwise   *)
GateAsDocumented(ok, pct, total, matched, skipped) ==
    LET checked == total - skipped
    IN  /\ ok <=> (checked = 0 \/ 10 * matched >= 9 * checked)
        /\ checked = 0 => PctIs(pct, 100)
        /\ checked # 0 => pct.num * checked = 100 * matched * pct.den

\* the sentences of the source text, as the coverage check receives them
SourceSentences == split_sentences(pdf_text.v)

\* the chunk corpus the coverage check searches: the words of all chunk text, joined
CoverageCorpus ==
    LET w == extract_words(AllChunksText(Chunks)) IN Concat(w, Len(w))

\* the trailing-5-token fingerprint of a sentence of at least five words
Fingerprint(sentence) == Concat(Last5(extract_words(sentence)), 5)

\* the sentences of s that have at least five tokens
LongSentences(s) == { i \in 1..Len(s) : Len(extract_words(s[i])) >= 5 }

\* the sentences of s of at least five tokens whose fingerprint the corpus does not hold
AbsentSentences(s, corpus) ==
    { i \in LongSentences(s) : ~IsSubstring(Fingerprint(s[i]), corpus) }

\* the coverage-unmatched entries recorded for the fingerprint fp
UnmatchedEntriesFor(fp) ==
    { k \in 1..Len(report.coverage.v.unmatched) :
        Fingerprint(report.coverage.v.unmatched[k].last5) = fp }

(* C11: the coverage gate and the numeric gate each pass exactly when      *)
(* checked = 0 or matched / checked x 100 >= 90 (10 * matched >= 9 *       *)
(* checked) with checked = total - skipped, and the percentage is 100 when *)
(* checked = 0; a source sentence of at least five tokens whose trailing-  *)
(* 5-token fingerprint is absent from all chunk text has one coverage-     *)
(* unmatched entry, and the overall verdict is FAIL whenever the coverage  *)
(* is below 90.                                                            *)
C11_GatesPassFromNinetyPercent ==
    /\ ~IsNone(report.coverage) =>
         LET c == report.coverage.v
             s == SourceSentences
             corpus == CoverageCorpus
         IN  /\ GateAsDocumented(coverage_ok(report), coverage_pct(c), c.total_sentences,
                                 c.matched_sentences, c.skipped_sentences)
             /\ \A i \in AbsentSentences(s, corpus) :
                    Cardinality(UnmatchedEntriesFor(Fingerprint(s[i]))) = 1
             /\ ~AtLeast90(coverage_pct(c)) => ~all_ok(report)
    /\ ~IsNone(report.numeric) =>
         LET m == report.numeric.v
         IN  GateAsDocumented(numeric_ok(report), numeric_pct(m), m.total_patterns,
                              m.matched_patterns, m.skipped_patterns)

(* C11 happens: of ten checked sentences nine are matched, the one whose   *)
(* fingerprint is absent is the single unmatched entry, and the run that   *)
(* stands at exactly 90% returns an overall PASS.                          *)
C11_Witness ==
    /\ returned = "report"
    /\ ~IsNone(report.coverage)
    /\ report.coverage.v.total_sentences - report.coverage.v.skipped_sentences = 10
    /\ report.coverage.v.matched_sentences = 9
    /\ Len(report.coverage.v.unmatched) = 1
    /\ AbsentSentences(SourceSentences, CoverageCorpus) # {}
    /\ all_ok(report)

\* the distinct trailing-5-token fingerprints of the sentences long of s
DistinctFingerprints(s, long) == { Fingerprint(s[i]) : i \in long }

(* C12: the coverage check skips every sentence of fewer than 5 tokens,    *)
(* and of the sentences of at least 5 tokens that share a trailing-5-token *)
(* fingerprint it checks the first and counts every later one as skipped:  *)
(* the number checked is the number of distinct fingerprints, and the      *)
(* number skipped is the short sentences plus the repeated ones.           *)
C12_OneCheckPerFingerprint ==
    ~IsNone(report.coverage) =>
        LET c == report.coverage.v
            s == SourceSentences
            long == LongSentences(s)
            distinct == Cardinality(DistinctFingerprints(s, long))
        IN  /\ c.total_sentences = Len(s)
            /\ c.total_sentences - c.skipped_sentences = distinct
            /\ c.matched_sentences + Len(c.unmatched) = distinct
            /\ c.skipped_sentences
                   = (Len(s) - Cardinality(long)) + (Cardinality(long) - distinct)

(* C12 happens: the source holds two sentences of five tokens with one     *)
(* fingerprint, and the result counts one checked and one skipped.         *)
C12_Witness ==
    /\ ~IsNone(report.coverage)
    /\ report.coverage.v.total_sentences = 2
    /\ report.coverage.v.skipped_sentences = 1
    /\ LET s == SourceSentences
       IN  /\ Cardinality(LongSentences(s)) = 2
           /\ Cardinality(DistinctFingerprints(s, LongSentences(s))) = 1

\* the numeric patterns of the source text, as the numeric check receives them
SourcePatterns == extract_numeric_patterns(pdf_text.v)

\* the chunk corpus the numeric check searches: the tokens of all chunk text, joined
NumericCorpus ==
    LET w == extract_num_words(AllChunksText(Chunks)) IN Concat(w, Len(w))

\* the context-word pair of a pattern: the up-to-2 tokens before and after
ContextPair(pat) == <<pat.context_before, pat.context_after>>

\* the pairs of occurrences in pats of one numeric value between distinct context-word pairs
SameValueOtherContext(pats) ==
    { pair \in (1..Len(pats)) \X (1..Len(pats)) :
        /\ pair[1] < pair[2]
        /\ pats[pair[1]].value = pats[pair[2]].value
        /\ ContextPair(pats[pair[1]]) # ContextPair(pats[pair[2]]) }

\* the numeric-unmatched entries recorded under the search key
NumericUnmatchedFor(key) ==
    { k \in 1..Len(report.numeric.v.unmatched) : report.numeric.v.unmatched[k].search_key = key }

\* the search key was looked up in the corpus on its own: matched, or one unmatched entry
MatchedIndependently(key, corpus) ==
    Cardinality(NumericUnmatchedFor(key)) = (IF IsSubstring(key, corpus) THEN 0 ELSE 1)

\* the distinct search keys of the patterns pats
DistinctKeys(pats) == { pats[i].search_key : i \in 1..Len(pats) }

\* every distinct search key of pats was checked once, every repetition of a key skipped
OneCheckPerKey(pats, corpus) ==
    LET m == report.numeric.v
        keys == DistinctKeys(pats)
    IN  /\ m.total_patterns = Len(pats)
        /\ m.total_patterns - m.skipped_patterns = Cardinality(keys)
        /\ m.matched_patterns + Len(m.unmatched) = Cardinality(keys)
        /\ \A key \in keys : MatchedIndependently(key, corpus)

(* C13: in the numeric check, two occurrences of the same numeric value    *)
(* whose context-word pairs are distinct always produce two distinct       *)
(* search keys, and each key is matched against the chunk corpus           *)
(* independently, neither skipped as a duplicate of the other.             *)
C13_DistinctContextsDistinctKeys ==
    ~IsNone(report.numeric) =>
        LET pats == SourcePatterns
            corpus == NumericCorpus
        IN  pats # <<>> =>
                /\ \A pair \in SameValueOtherContext(pats) :
                       pats[pair[1]].search_key # pats[pair[2]].search_key
                /\ OneCheckPerKey(pats, corpus)

\* the separator-free concatenation the search key of a pattern is built from
JoinedContext(pat) ==
    Concat(pat.context_before, Len(pat.context_before)) \o pat.value
        \o AlphaOnly(pat.unit) \o Concat(pat.context_after, Len(pat.context_after))

(* C13, amended: two occurrences of the same numeric value whose context-  *)
(* word pairs are distinct produce two distinct search keys whenever the   *)
(* separator-free concatenations before-context + value + unit letters +   *)
(* after-context differ, and one search key when they coincide; search     *)
(* keys that are distinct are each matched against the chunk corpus        *)
(* independently, and every repetition of a key is skipped.                *)
C13_DistinctJoinedContextsDistinctKeys ==
    ~IsNone(report.numeric) =>
        LET pats == SourcePatterns
            corpus == NumericCorpus
        IN  pats # <<>> =>
                /\ \A pair \in SameValueOtherContext(pats) :
                       (pats[pair[1]].search_key # pats[pair[2]].search_key)
                           <=> (JoinedContext(pats[pair[1]]) # JoinedContext(pats[pair[2]]))
                /\ OneCheckPerKey(pats, corpus)

(* C13 happens: the source holds one value between two distinct context    *)
(* pairs with two search keys; the chunk corpus holds the first key only,  *)
(* so one pattern is matched and the other is the unmatched entry.         *)
C13_Witness ==
    /\ ~IsNone(report.numeric)
    /\ report.numeric.v.matched_patterns = 1
    /\ Len(report.numeric.v.unmatched) = 1
    /\ report.numeric.v.skipped_patterns = 0
    /\ LET pats == SourcePatterns
           corpus == NumericCorpus
       IN  \E pair \in SameValueOtherContext(pats) :
               /\ pats[pair[1]].search_key # pats[pair[2]].search_key
               /\ IsSubstring(pats[pair[1]].search_key, corpus)
               /\ ~IsSubstring(pats[pair[2]].search_key, corpus)

\* the unit consists of letters and is not empty
IsLetterUnit(unit) == unit # <<>> /\ AlphaOnly(unit) = unit

(* an operator + number + letter-unit assertion of the source flanked by   *)
(* two context words on each side                                          *)
IsFlankedAssertion(pat) ==
    /\ pat.operator # <<>>
    /\ IsLetterUnit(pat.unit)
    /\ Len(pat.context_before) = 2
    /\ Len(pat.context_after) = 2

\* the numeric assertions found in the chunk text
ChunkPatterns == extract_numeric_patterns(AllChunksText(Chunks))

\* the chunk pattern carries the number and the context words of the source pattern
SameNumberAndContext(cp, pat) ==
    /\ cp.value = pat.value
    /\ cp.context_before = pat.context_before
    /\ cp.context_after = pat.context_after

(* the chunk patterns cps hold the number and the context words of the     *)
(* source assertion with a different letter unit in place of its unit      *)
UnitChangedInChunks(pat, cps) ==
    /\ \E k \in 1..Len(cps) :
           /\ SameNumberAndContext(cps[k], pat)
           /\ IsLetterUnit(cps[k].unit)
           /\ cps[k].unit # pat.unit
    /\ \A k \in 1..Len(cps) : SameNumberAndContext(cps[k], pat) => cps[k].unit # pat.unit

\* operator, value and unit as the source writes them, separated by single blanks
AsWritten(pat) == pat.operator \o <<" ">> \o pat.value \o <<" ">> \o pat.unit

\* the assertions of Scenario D among pats that the source writes with single blanks
ScenarioD(pats, cps) ==
    { i \in 1..Len(pats) :
        /\ IsFlankedAssertion(pats[i])
        /\ UnitChangedInChunks(pats[i], cps)
        /\ IsSubstring(AsWritten(pats[i]), pdf_text.v) }

ChecksRun ==
    { calls[i] : i \in 1..Len(calls) }
        \cap {"verify_schema", "verify_structure", "verify_coverage", "verify_numerics"}

(* C15: no check mutates the chunk dataset: once load_chunks has returned  *)
(* it, and after verify_schema, verify_structure, verify_coverage and      *)
(* verify_numerics have run in whatever combination the run takes, the     *)
(* dataset - every chunk and every nested field - is what was loaded.      *)
C15_ChecksLeaveDatasetUnchanged ==
    (json_in.kind = "ok" /\ Ran("load_chunks")) => data = json_in.data

(* C15 happens: the four checks have run to the end on a collection that   *)
(* holds a chunk, and the dataset is the loaded one.                       *)
C15_Witness ==
    /\ pc = "done"
    /\ Cardinality(ChecksRun) = 4
    /\ Len(Chunks) >= 1
    /\ data = json_in.data

(* C15 happens for the structural check: it has sorted its own copy of a   *)
(* collection stored out of chunk_seq order, and the dataset keeps its     *)
(* order.                                                                  *)
C15_WitnessUnsorted ==
    /\ Ran("verify_structure")
    /\ ~raised
    /\ IsDict(data)
    /\ Len(Chunks) >= 2
    /\ SortChunks(Chunks) # Chunks
    /\ data = json_in.data

\* the call of verify() of the current run has returned or raised
VerifyEnded == pc \in {"main", "done"}

(* C16: no state survives across runs: in any sequence of verify runs on   *)
(* one verifier instance, the report of each run holds the findings and    *)
(* counts of that run's own input only, and the outcome for an input -     *)
(* report, return value, exception - is the same whatever runs preceded it *)
C16_ReportOfOwnInputOnly ==
    VerifyEnded =>
        LET alone == verify(json_in, pdf_in)
        IN  /\ report = alone.report
            /\ returned = alone.returned
            /\ raised = alone.raised

(* C16 happens: an earlier run on the instance ran the coverage check, and *)
(* the second run, without a source document, returns a report without a   *)
(* coverage result that holds a finding of its own.                        *)
C16_Witness ==
    /\ RunsStarted = 2
    /\ returned = "report"
    /\ pdf_in.kind = "none"
    /\ Ran("verify_coverage")
    /\ IsNone(report.coverage)
    /\ Len(report.schema_errors) = 1

\* the optional knowledge-graph extension fields
KgFields == {"domain_entities", "ontology_keywords", "applicability", "normative_values"}

\* the field names under which a finding on a knowledge-graph extension field is recorded
KgFindingFields ==
    KgFields
    \cup { "ontology_keywords[" \o IdxStr(j) \o "]" : j \in 0..9 }
    \cup { "domain_entities[" \o IdxStr(i) \o "]" \o part
           : i \in 0..9, part \in {"", ".mention", ".canonical", ".type"} }

\* the chunk without its knowledge-graph extension fields
WithoutKgFields(c) ==
    IF IsDict(c) THEN JObj([k \in DOMAIN c.v \ KgFields |-> c.v[k]]) ELSE c

\* the dataset with the knowledge-graph extension fields taken out of every chunk
DataWithoutKgFields(d) ==
    IF IsDict(d) /\ HasKey(d, "chunks") /\ IsList(Get(d, "chunks"))
    THEN JObj(("chunks" :> JList([i \in 1..Len(ChunksOf(d)) |-> WithoutKgFields(ChunksOf(d)[i])]))
              @@ d.v)
    ELSE d

\* the run on the same input without the knowledge-graph extension fields
RunWithoutKgFields ==
    verify([kind |-> "ok", data |-> DataWithoutKgFields(json_in.data)], pdf_in)

\* some chunk of the input carries a knowledge-graph extension field
HasKgContent ==
    /\ json_in.kind = "ok"
    /\ DataWithoutKgFields(json_in.data) # json_in.data

\* every finding recorded on a knowledge-graph extension field is a warning
KgFindingsAreWarnings ==
    \A k \in 1..Len(report.schema_errors) :
        report.schema_errors[k].field \in KgFindingFields
            => report.schema_errors[k].severity = "warning"

(* C17: every finding raised on domain_entities, ontology_keywords,        *)
(* applicability and normative_values has severity warning, so no content  *)
(* of those fields turns the schema verdict or the overall verdict from    *)
(* PASS to FAIL: a run that passes without them passes with them.          *)
C17_KgContentNeverFails ==
    (VerifyEnded /\ HasKgContent) =>
        /\ KgFindingsAreWarnings
        /\ (RunWithoutKgFields.returned = "report" /\ schema_ok(RunWithoutKgFields.report))
               => (returned = "report" /\ schema_ok(report))
        /\ (RunWithoutKgFields.returned = "report" /\ all_ok(RunWithoutKgFields.report))
               => (returned = "report" /\ all_ok(report))

(* the part of C17 about severities, on its own: whatever a run records on *)
(* a knowledge-graph extension field, it records as a warning              *)
C17_KgFindingsAreWarnings ==
    HasKgContent => KgFindingsAreWarnings

\* a run has recorded a warning on a knowledge-graph extension field and passed
C17_WarningRecorded ==
    /\ returned = "report"
    /\ HasKgContent
    /\ \E k \in 1..Len(report.schema_errors) : report.schema_errors[k].field \in KgFindingFields
    /\ all_ok(report)

\* the input loads as an object whose chunk collection is empty or not given
EmptyCollection ==
    /\ json_in.kind = "ok"
    /\ IsDict(json_in.data)
    /\ GetD(json_in.data, "chunks", JList(<<>>)) = JList(<<>>)

(* C18: an empty chunk collection yields no schema finding and no          *)
(* structural finding, and a run on it without a source document returns   *)
(* a report with overall PASS and ends with exit status 0.                 *)
C18_EmptyCollectionPasses ==
    EmptyCollection =>
        /\ report.schema_errors = <<>>
        /\ report.structure_errors = <<>>
        /\ ~raised
        /\ (pc = "done" /\ pdf_in.kind = "none") =>
               (returned = "report" /\ all_ok(report) /\ exit_status = 0)

(* C18 happens: the run on {"chunks": []} without a source document has    *)
(* called both validators and ended with PASS.                             *)
C18_Witness ==
    /\ EmptyCollection
    /\ HasKey(json_in.data, "chunks")
    /\ pdf_in.kind = "none"
    /\ pc = "done"
    /\ Ran("verify_schema") /\ Ran("verify_structure")
    /\ report.total_chunks = 0
    /\ all_ok(report)

\* the run has returned a report in which the structural validator lists no finding
NoStructuralFinding == returned = "report" /\ report.structure_errors = <<>>

\* the prev / next link of a chunk: c.get(...)
PrevOf(c) == Get(c, "prev_chunk_id")
NextOf(c) == Get(c, "next_chunk_id")

(* the chunks q, in ascending chunk_seq, form a doubly linked traversal    *)
(* order: consecutive chunks name each other, the ends are null            *)
DoublyLinked(q) ==
    Len(q) > 0 =>
        /\ IsNone(PrevOf(q[1]))
        /\ IsNone(NextOf(q[Len(q)]))
        /\ \A i \in 1..(Len(q) - 1) :
               /\ NextOf(q[i]) = Get(q[i + 1], "chunk_id")
               /\ PrevOf(q[i + 1]) = Get(q[i], "chunk_id")

(* the links of the chunks q, in ascending chunk_seq, resolve: the ends    *)
(* are null and every link that is not null names a chunk of q             *)
LinksResolve(q) ==
    Len(q) > 0 =>
        /\ IsNone(PrevOf(q[1]))
        /\ IsNone(NextOf(q[Len(q)]))
        /\ \A i \in 1..Len(q) :
               /\ IsNone(PrevOf(q[i])) \/ PrevOf(q[i]) \in ChunkIds(q)
               /\ IsNone(NextOf(q[i])) \/ NextOf(q[i]) \in ChunkIds(q)

(* C19: every collection for which the structural validator reports no    *)
(* finding has valid cross-links: sorted by ascending chunk_seq, each pair *)
(* of consecutive chunks a, b has a.next_chunk_id = b.chunk_id and         *)
(* b.prev_chunk_id = a.chunk_id, the first prev and the last next null.    *)
C19_NoFindingMeansDoublyLinked ==
    NoStructuralFinding => DoublyLinked(SortChunks(Chunks))

(* C19, amended: every collection for which the structural validator       *)
(* reports no finding has, sorted by ascending chunk_seq, a first chunk    *)
(* with a null prev_chunk_id, a last chunk with a null next_chunk_id, and  *)
(* only links that are null or name a chunk_id of the collection; that     *)
(* consecutive chunks name each other is not checked.                      *)
C19_NoFindingMeansLinksResolve ==
    NoStructuralFinding => LinksResolve(SortChunks(Chunks))

(* C19 happens: the validator lists no finding for a collection of three   *)
(* chunks whose links resolve without forming the traversal order.         *)
C19_Witness ==
    /\ NoStructuralFinding
    /\ Len(Chunks) = 3
    /\ \E i \in 1..3 : ~IsNone(PrevOf(Chunks[i])) \/ ~IsNone(NextOf(Chunks[i]))
    /\ LinksResolve(SortChunks(Chunks))
    /\ ~DoublyLinked(SortChunks(Chunks))

\* the structural validator was called on a collection of chunk objects
ValidatorCalledOnChunks ==
    /\ Ran("verify_structure")
    /\ IsDict(data)
    /\ IsList(GetD(data, "chunks", JList(<<>>)))
    /\ \A i \in 1..Len(Chunks) : IsDict(Chunks[i])

\* the link is not null and names no chunk_id of the collection
Dangles(link) == ~IsNone(link) /\ link \notin ChunkIds(Chunks)

\* the error findings of type ty recorded for the chunk c
DanglingFindings(c, ty) ==
    { k \in 1..Len(report.structure_errors) :
        /\ report.structure_errors[k].error_type = ty
        /\ report.structure_errors[k].severity = "error"
        /\ report.structure_errors[k].subject = GetD(c, "chunk_id", JStr("?")) }

(* each chunk has one prev_chunk_id_dangling error exactly when its        *)
(* prev_chunk_id dangles, and one next_chunk_id_dangling error exactly     *)
(* when its next_chunk_id dangles, each without regard to the other        *)
DanglingLinksReported ==
    \A i \in 1..Len(Chunks) :
        /\ Cardinality(DanglingFindings(Chunks[i], "prev_chunk_id_dangling"))
               = (IF Dangles(PrevOf(Chunks[i])) THEN 1 ELSE 0)
        /\ Cardinality(DanglingFindings(Chunks[i], "next_chunk_id_dangling"))
               = (IF Dangles(NextOf(Chunks[i])) THEN 1 ELSE 0)

(* C20: for each chunk, a non-null prev_chunk_id that is not in the        *)
(* collection's chunk_id set yields exactly one error-severity             *)
(* prev_chunk_id_dangling finding, and a non-null next_chunk_id not in     *)
(* that set yields exactly one error-severity next_chunk_id_dangling       *)
(* finding; the two are checked independently, and a null link or a link   *)
(* naming an existing chunk_id yields no dangling finding.                 *)
C20_OneDanglingFindingPerLink ==
    ValidatorCalledOnChunks => DanglingLinksReported

(* the findings of C20 in the runs in which the validator returned: there  *)
(* every dangling link has its one finding                                 *)
C20_DanglingFindingsOfReturnedReport ==
    (ValidatorCalledOnChunks /\ returned = "report") => DanglingLinksReported

\* a returned report holds both dangling findings for one chunk
C20_BothDanglingReported ==
    /\ returned = "report"
    /\ \E i \in 1..Len(Chunks) :
           /\ Dangles(PrevOf(Chunks[i])) /\ Dangles(NextOf(Chunks[i]))
           /\ Cardinality(DanglingFindings(Chunks[i], "prev_chunk_id_dangling")) = 1
           /\ Cardinality(DanglingFindings(Chunks[i], "next_chunk_id_dangling")) = 1

\* every chunk_seq the sort of the prev/next walk compares is an integer
SortableSeqs == \A i \in 1..Len(Chunks) : IsIntJ(GetD(Chunks[i], "chunk_seq", JInt(0)))

\* the structural findings of type ty in the report
ReportedOfType(ty) == FindingsOfType(report.structure_errors, ty)

\* one finding of type ty, a warning, when the link is not null; none when it is null
OneWarningIffLinked(ty, link) ==
    /\ Len(ReportedOfType(ty)) = (IF IsNone(link) THEN 0 ELSE 1)
    /\ \A k \in 1..Len(ReportedOfType(ty)) : ReportedOfType(ty)[k].severity = "warning"

\* the head/tail findings
HeadTailTypes == {"prev_chunk_id_error", "next_chunk_id_error"}

\* every structural finding of the report is a head/tail finding
OnlyHeadTailFindings ==
    \A k \in 1..Len(report.structure_errors) :
        report.structure_errors[k].error_type \in HeadTailTypes

\* the head/tail rule on the chunks q in ascending chunk_seq order
HeadTailReported(q) ==
    /\ OneWarningIffLinked("prev_chunk_id_error", PrevOf(q[1]))
    /\ OneWarningIffLinked("next_chunk_id_error", NextOf(q[Len(q)]))
    /\ OnlyHeadTailFindings => structure_ok(report)

(* C21: head/tail null-pointer violations are warnings only: a non-null    *)
(* prev_chunk_id on the first chunk in ascending chunk_seq order yields    *)
(* one prev_chunk_id_error of severity warning, a non-null next_chunk_id   *)
(* on the last chunk yields one next_chunk_id_error of severity warning,   *)
(* and a collection whose only structural findings are of these two types  *)
(* has a passing structure verdict.                                        *)
C21_HeadTailViolationsWarn ==
    (ValidatorCalledOnChunks /\ Len(Chunks) > 0 /\ SortableSeqs)
        => HeadTailReported(SortChunks(Chunks))

(* the findings of C21 in the runs in which the validator returned: there  *)
(* every head/tail violation has its one warning                           *)
C21_HeadTailWarningsOfReturnedReport ==
    (ValidatorCalledOnChunks /\ Len(Chunks) > 0 /\ SortableSeqs /\ returned = "report")
        => HeadTailReported(SortChunks(Chunks))

\* a returned report holds both head/tail warnings and nothing else, and passes
C21_BothWarningsReported ==
    /\ returned = "report"
    /\ Len(ReportedOfType("prev_chunk_id_error")) = 1
    /\ Len(ReportedOfType("next_chunk_id_error")) = 1
    /\ OnlyHeadTailFindings
    /\ structure_ok(report)

\* the smallest chunk_seq of the collection
MinSeq == CHOOSE x \in SeqSet : \A y \in SeqSet : x <= y

(* C22: if the minimum chunk_seq of a non-empty collection is non-zero,    *)
(* exactly one seq_not_zero finding is emitted, and gaps are computed      *)
(* relative to that minimum: a collection whose chunk_seq values are       *)
(* exactly k, k+1, ..., k+n-1 gets no seq_gap finding (and, for k # 0, one *)
(* seq_not_zero finding); a collection whose minimum is 0 gets no          *)
(* seq_not_zero finding.                                                   *)
C22_NotZeroOnceAndGapsFromMinimum ==
    IntegerSeqsChecked =>
        LET not_zero == FindingsOfType(report.structure_errors, "seq_not_zero")
        IN  /\ Len(not_zero) = (IF MinSeq # 0 THEN 1 ELSE 0)
            /\ \A k \in 1..Len(not_zero) : not_zero[k].detail = <<MinSeq>>
            /\ (SeqSet = MinSeq..(MinSeq + Len(Chunks) - 1))
                   => FindingsOfType(report.structure_errors, "seq_gap") = <<>>

(* C22 happens: three chunks numbered 1, 2, 3 get one seq_not_zero finding *)
(* and no seq_gap finding.                                                 *)
C22_Witness ==
    /\ IntegerSeqsChecked
    /\ Len(Chunks) = 3
    /\ SeqSet = {1, 2, 3}
    /\ Len(FindingsOfType(report.structure_errors, "seq_not_zero")) = 1
    /\ FindingsOfType(report.structure_errors, "seq_gap") = <<>>

\* the number of calls of handler h in the run
CallCount(h) == Len(SelectSeq(calls, LAMBDA c : c = h))

\* handler g was called, and before every call of handler h
CalledBefore(g, h) ==
    \A i \in 1..Len(calls) : calls[i] = h => \E j \in 1..(i - 1) : calls[j] = g

\* the text the extraction of this run's source document yields
ExtractedText == extract_pdf_text(pdf_in, data).text

(* C23: within one run the source-text extraction is invoked at most once  *)
(* and never when no source document is given; it happens after the schema *)
(* and structure checks; and the coverage check and the numeric check both *)
(* consume that same extracted text: each runs only after the extraction,  *)
(* and its result is the one computed from the text the extraction gave.   *)
C23_ExtractionOnceBeforeBothChecks ==
    /\ CallCount("_extract_pdf_text") <= 1
    /\ pdf_in.kind = "none" => CallCount("_extract_pdf_text") = 0
    /\ CalledBefore("verify_schema", "_extract_pdf_text")
    /\ CalledBefore("verify_structure", "_extract_pdf_text")
    /\ CalledBefore("_extract_pdf_text", "verify_coverage")
    /\ CalledBefore("_extract_pdf_text", "verify_numerics")
    /\ (Ran("verify_coverage") \/ Ran("verify_numerics")) => pdf_text = ExtractedText
    /\ ~IsNone(report.coverage) =>
           report.coverage = Some(verify_coverage(pdf_text.v, data).result)
    /\ ~IsNone(report.numeric) =>
           report.numeric = Some(verify_numerics(pdf_text.v, data).result)

(* C23 happens: a run with a source document has ended after one           *)
(* extraction, and the report holds the results of both checks.            *)
C23_Witness ==
    /\ pc = "done"
    /\ calls = <<"load_chunks", "verify_schema", "verify_structure",
                 "_extract_pdf_text", "verify_coverage", "verify_numerics">>
    /\ ~IsNone(report.coverage)
    /\ ~IsNone(report.numeric)
    /\ report.coverage.v.total_sentences > 0

\* the non-blank lines of the extracted source text, trimmed
SourceTextLines ==
    IF IsStrJ(pdf_text)
    THEN LET raw == SplitOn(pdf_text.v, "\n", 1, <<>>) IN StripNonEmpty(raw, Len(raw))
    ELSE <<>>

(* position i of line holds a period that an alphanumeric character or a   *)
(* closing bracket precedes and whitespace or the end of the line follows  *)
IsTerminalPeriod(line, i) ==
    /\ line[i] = "."
    /\ i > 1
    /\ line[i - 1] \in Letters \cup Digits \cup {")", "]"}
    /\ (i = Len(line) \/ line[i + 1] \in Whitespace)

\* position i of line holds a decimal point: a period between two digits
IsDecimalPoint(line, i) ==
    /\ line[i] = "."
    /\ 1 < i /\ i < Len(line)
    /\ line[i - 1] \in Digits
    /\ line[i + 1] \in Digits

(* position i of line holds the period of a clause number: the line starts *)
(* with digits up to the period, and text follows it                       *)
IsClauseNumberPeriod(line, i) ==
    /\ line[i] = "."
    /\ i > 1
    /\ \A j \in 1..(i - 1) : line[j] \in Digits
    /\ \E j \in (i + 1)..Len(line) : line[j] \notin Whitespace

RECURSIVE CutLine(_, _, _, _)
\* the parts of line between the periods at the positions of P
CutLine(line, P, i, cur) ==
    IF i > Len(line) THEN <<cur>>
    ELSE IF i \in P THEN <<cur>> \o CutLine(line, P, i + 1, <<>>)
    ELSE CutLine(line, P, i + 1, Append(cur, line[i]))

\* the ordered trimmed, non-empty parts of line cut at the positions of P
TrimmedParts(line, P) ==
    LET parts == CutLine(line, P, 1, <<>>) IN StripNonEmpty(parts, Len(parts))

\* the segmenter's output for line is line cut at some positions among `allowed`
SegmentedWithin(line, allowed) ==
    \E P \in SUBSET allowed : split_sentences(line) = TrimmedParts(line, P)

(* C24: the sentence segmenter splits a line at a terminal period only     *)
(* where the period is immediately preceded by an alphanumeric character   *)
(* or a closing bracket and followed by whitespace or end of line, and it  *)
(* never splits on a decimal point nor on enumerated-clause numbering (a   *)
(* clause number such as "101." followed by its text); the output is the   *)
(* ordered sequence of trimmed, non-empty parts.                           *)
C24_SplitsOnlyAtSentenceEnds ==
    LET lines == SourceTextLines
    IN  \A k \in 1..Len(lines) :
            SegmentedWithin(lines[k],
                { i \in 1..Len(lines[k]) :
                      /\ IsTerminalPeriod(lines[k], i)
                      /\ ~IsDecimalPoint(lines[k], i)
                      /\ ~IsClauseNumberPeriod(lines[k], i) })

(* what the segmenter does: it cuts every line at every terminal period,   *)
(* the period of a clause number included, and at no decimal point         *)
C24_SplitsAtEveryTerminalPeriod ==
    LET lines == SourceTextLines
    IN  \A k \in 1..Len(lines) :
            /\ split_sentences(lines[k])
                   = TrimmedParts(lines[k],
                                  { i \in 1..Len(lines[k]) : IsTerminalPeriod(lines[k], i) })
            /\ \A i \in 1..Len(lines[k]) :
                   IsDecimalPoint(lines[k], i) => ~IsTerminalPeriod(lines[k], i)

\* the coverage check has segmented a text that starts with a clause number
C24_ClauseNumberSegmented ==
    /\ Ran("verify_coverage")
    /\ Len(SourceTextLines) > 0
    /\ \E i \in 1..Len(SourceTextLines[1]) : IsClauseNumberPeriod(SourceTextLines[1], i)
    /\ split_sentences(SourceTextLines[1])[1] = <<"1", "0", "1">>

\* the names of the tables in the tables_data object of Chunks[i]
TableNames(i) ==
    IF IsDict(Get(Chunks[i], "tables_data")) THEN DOMAIN Get(Chunks[i], "tables_data").v ELSE {}

\* the value of table tname in Chunks[i]
TableValue(i, tname) == Get(Chunks[i], "tables_data").v[tname]

\* the fields of a table that an object value lacks
MissingTableFields(tdata) ==
    {f \in {"title", "columns", "rows"} : ~HasKey(tdata, f)}

\* the schema findings on table tname of Chunks[i]: on the entry or on one of its fields
TableFindingsOn(i, tname) ==
    SchemaFindingsOn(i, "tables_data." \o tname)
    \cup UNION { SchemaFindingsOn(i, "tables_data." \o tname \o "." \o f)
                 : f \in {"title", "columns", "rows"} }

\* tables_data of Chunks[i], when it is neither null nor an object, has its one error finding
NonObjectTablesDataReported(i) ==
    LET td == Get(Chunks[i], "tables_data")
    IN  (~IsNone(td) /\ ~IsDict(td)) =>
            (Cardinality(SchemaFindingsOn(i, "tables_data")) = 1
             /\ SeveritiesOn(i, "tables_data") = {"error"})

(* C25 as stated: tables_data must be an object whose every value is       *)
(* itself an object containing title, columns and rows: a tables_data      *)
(* entry whose value is not an object, or is an object missing any of      *)
(* title/columns/rows, yields a schema finding for that entry.             *)
C25_BadTableEntryIsReported ==
    SchemaCompleted =>
        \A i \in 1..Len(Chunks) :
            /\ NonObjectTablesDataReported(i)
            /\ \A tname \in TableNames(i) :
                   LET tdata == TableValue(i, tname)
                   IN  (~IsDict(tdata) \/ MissingTableFields(tdata) # {})
                           => TableFindingsOn(i, tname) # {}

(* C25 amended: only object values are examined.  tables_data must be an   *)
(* object; an entry whose value is an object missing any of                *)
(* title/columns/rows yields one error finding for each missing field of   *)
(* that entry, and an entry whose value is not an object is passed over    *)
(* without a finding.                                                      *)
C25_ObjectEntryMissingFieldIsReported ==
    SchemaCompleted =>
        \A i \in 1..Len(Chunks) :
            /\ NonObjectTablesDataReported(i)
            /\ \A tname \in TableNames(i) :
                   LET tdata == TableValue(i, tname)
                   IN  IF IsDict(tdata)
                       THEN \A f \in {"title", "columns", "rows"} :
                               LET fld == "tables_data." \o tname \o "." \o f
                               IN  /\ Cardinality(SchemaFindingsOn(i, fld))
                                         = (IF f \in MissingTableFields(tdata) THEN 1 ELSE 0)
                                   /\ SeveritiesOn(i, fld) \subseteq {"error"}
                       ELSE TableFindingsOn(i, tname) = {}

(* C25 happens: a chunk with a table that is no object and a table that    *)
(* lacks title and columns went through the schema check, and the report   *)
(* holds the two findings of the second table only.                        *)
C25_Witness ==
    /\ pc = "done"
    /\ returned = "report"
    /\ Len(Chunks) = 1
    /\ TableNames(1) = {"T1", "T2"}
    /\ ~IsDict(TableValue(1, "T1"))
    /\ IsDict(TableValue(1, "T2"))
    /\ MissingTableFields(TableValue(1, "T2")) = {"title", "columns"}
    /\ Len(report.schema_errors) = 2
    /\ Cardinality(TableFindingsOn(1, "T2")) = 2

\* the number the decimal digit character c stands for
DigitValue(c) == CHOOSE d \in 0..9 : DigitChar(d) = c

RECURSIVE ParseInt(_)
\* the number a string of decimal digits stands for
ParseInt(s) ==
    IF Len(s) = 0 THEN 0
    ELSE 10 * ParseInt(SubSeq(s, 1, Len(s) - 1)) + DigitValue(s[Len(s)])

(* the two page numbers in the name of a written file: the digits between  *)
(* the last "_" and the last "-", and between that "-" and the extension   *)
PageNumbersInName(path) ==
    <<ParseInt(SubSeq(path, LastIndexOf(path, "_") + 1, LastIndexOf(path, "-") - 1)),
      ParseInt(SubSeq(path, LastIndexOf(path, "-") + 1, LastIndexOf(path, ".") - 1))>>

\* the 1-based page numbers held by the k-th written file
PagesOfFile(k) == {saved[k].pages[j] + 1 : j \in 1..Len(saved[k].pages)}

\* the first and the last 1-based page number of the k-th written file
FirstPage(k) == saved[k].pages[1] + 1
LastPage(k) == saved[k].pages[Len(saved[k].pages)] + 1

\* ceil(n / c): the least k with k * c >= n
CeilDiv(n, c) == CHOOSE k \in 0..n : k * c >= n /\ \A j \in 0..(k - 1) : j * c < n

CountsAddUp(total, matched, skipped, unmatched) ==
    /\ matched + Len(unmatched) + skipped = total
    /\ total >= 0 /\ matched >= 0 /\ skipped >= 0
    /\ total - skipped = matched + Len(unmatched)

\* a percentage between 0 and 100
WithinPercentRange(pct) ==
    /\ pct.den > 0
    /\ 0 <= pct.num
    /\ pct.num <= 100 * pct.den

(* C27: after any completed coverage check and any completed numeric       *)
(* check, matched + (number of unmatched entries) + skipped = total, with  *)
(* all four counts non-negative; hence checked = matched + unmatched and   *)
(* the percentage lies between 0 and 100.                                  *)
C27_CountsAddUpToTotal ==
    /\ ~IsNone(report.coverage) =>
           LET c == report.coverage.v
           IN  /\ CountsAddUp(c.total_sentences, c.matched_sentences,
                              c.skipped_sentences, c.unmatched)
               /\ WithinPercentRange(coverage_pct(c))
    /\ ~IsNone(report.numeric) =>
           LET c == report.numeric.v
           IN  /\ CountsAddUp(c.total_patterns, c.matched_patterns,
                              c.skipped_patterns, c.unmatched)
               /\ WithinPercentRange(numeric_pct(c))

(* C27 happens: both checks completed on a document that repeats one      *)
(* sentence the chunks lack: each result has a total of two, one unmatched *)
(* entry and one skipped repeat.                                           *)
C27_Witness ==
    /\ ~IsNone(report.coverage)
    /\ ~IsNone(report.numeric)
    /\ report.coverage.v.total_sentences = 2
    /\ report.coverage.v.skipped_sentences = 1
    /\ Len(report.coverage.v.unmatched) = 1
    /\ report.numeric.v.total_patterns = 2
    /\ report.numeric.v.skipped_patterns = 1
    /\ Len(report.numeric.v.unmatched) = 1

\* a source document was given and its extraction returned a text that is not empty
SourceTextObtained ==
    /\ pdf_in.kind # "none"
    /\ LET extraction == extract_pdf_text(pdf_in, data)
       IN  /\ ~extraction.raised
           /\ IsStrJ(extraction.text)
           /\ extraction.text.v # <<>>

(* C28: in every report returned by verify, the coverage result and the    *)
(* numeric result are either both present or both absent; they are present *)
(* exactly when a source document was given and its extraction returned    *)
(* non-empty text, also when that text holds no numeric pattern (a numeric *)
(* result with total 0).                                                   *)
C28_BothResultsOrNone ==
    returned = "report" =>
        /\ IsNone(report.coverage) <=> IsNone(report.numeric)
        /\ ~IsNone(report.coverage) <=> SourceTextObtained
        /\ (SourceTextObtained /\ extract_numeric_patterns(ExtractedText.v) = <<>>)
               => (~IsNone(report.numeric) /\ report.numeric.v.total_patterns = 0)

(* C28 happens: a report was returned for a source text without numeric    *)
(* pattern; it holds a coverage result and a numeric result with total 0.  *)
C28_Witness ==
    /\ returned = "report"
    /\ SourceTextObtained
    /\ ~IsNone(report.coverage)
    /\ report.coverage.v.total_sentences > 0
    /\ ~IsNone(report.numeric)
    /\ report.numeric.v.total_patterns = 0

\* a report was returned without results although a source document was given
C28_WitnessAbsent ==
    /\ returned = "report"
    /\ pdf_in.kind # "none"
    /\ IsNone(report.coverage)
    /\ IsNone(report.numeric)

(* a source document is supplied but its text cannot be obtained: the      *)
(* extraction library is missing, the document cannot be opened, or the    *)
(* pages hold no text or only whitespace                                   *)
SourceTextUnobtainable ==
    \/ pdf_in.kind \in {"no_fitz", "open_fails"}
    \/ /\ pdf_in.kind = "doc"
       /\ \A k \in 1..Len(pdf_in.pages) : Strip(pdf_in.pages[k]) = <<>>

\* the exit status main() gives to what verify returned
ExitStatusFor(ret, rep) == IF ret = "none" THEN 1 ELSE IF all_ok(rep) THEN 0 ELSE 1

\* the run ended as the run on the same chunk file without a source document ends
EndsAsWithoutSource ==
    LET plain == verify(json_in, NoPdf)
    IN  /\ raised = plain.raised
        /\ returned = plain.returned
        /\ returned = "report" =>
               /\ report = plain.report
               /\ exit_status = ExitStatusFor("report", plain.report)

(* C29: when a source document is supplied but its text cannot be obtained *)
(* (extraction library missing, document cannot be opened, or the          *)
(* extracted text is empty/whitespace), the run does not fail: coverage    *)
(* and numeric checks are not run, their gates are vacuously satisfied,    *)
(* and the overall verdict and exit status depend only on the schema and   *)
(* structure findings, as in the run without a source document.            *)
C29_UnobtainableTextDoesNotFailRun ==
    (pc = "done" /\ SourceTextUnobtainable) =>
        /\ ~Ran("verify_coverage")
        /\ ~Ran("verify_numerics")
        /\ EndsAsWithoutSource
        /\ returned = "report" =>
               /\ IsNone(report.coverage) /\ IsNone(report.numeric)
               /\ coverage_ok(report) /\ numeric_ok(report)
               /\ all_ok(report) <=> (schema_ok(report) /\ structure_ok(report))

(* C29 in the runs in which the extraction itself does not raise: there    *)
(* the run ends as the run without a source document                       *)
C29_UnobtainableTextWithoutRaise ==
    (pc = "done" /\ SourceTextUnobtainable /\ ~extract_pdf_text(pdf_in, data).raised) =>
        /\ ~Ran("verify_coverage")
        /\ ~Ran("verify_numerics")
        /\ EndsAsWithoutSource

\* a run with a document that cannot be opened returned a passing report
C29_UnopenedDocumentPasses ==
    /\ pc = "done"
    /\ pdf_in.kind = "open_fails"
    /\ Ran("_extract_pdf_text")
    /\ returned = "report"
    /\ exit_status = 0

\* a run with a document that cannot be opened ended in the extraction with an exception
C29_UnopenedDocumentRaises ==
    /\ pc = "done"
    /\ pdf_in.kind = "open_fails"
    /\ calls[Len(calls)] = "_extract_pdf_text"
    /\ raised

\* the split groups of the collection can be formed: every split is an object with a usable group id
SplitGroupsFormed ==
    /\ Ran("verify_structure")
    /\ ~CounterRaises(Chunks)
    /\ ~SeqsRaise(Chunks)
    /\ ~SplitGroupingRaises(Chunks)

\* the members of the split group gid
GroupMembers(gid) == FilterChunks(Chunks, gid, Len(Chunks))

\* the structural findings of type ty that name the group gid
GroupFindings(gid, ty) ==
    SelectSeq(report.structure_errors, LAMBDA e : e.error_type = ty /\ JEq(e.subject, gid))

\* the group gid has its one split_total_mismatch finding and no finding of the other two checks
OnlyTotalMismatchReported(gid) ==
    /\ Len(GroupFindings(gid, "split_total_mismatch")) = 1
    /\ GroupFindings(gid, "split_count_mismatch") = <<>>
    /\ GroupFindings(gid, "split_index_gap") = <<>>

(* C30: for a split group whose members carry more than one distinct       *)
(* split_total, the structural validator emits exactly one                 *)
(* split_total_mismatch finding for the group and performs neither the     *)
(* member-count check nor the split_index check: no split_count_mismatch   *)
(* or split_index_gap finding is emitted for that group, whatever its      *)
(* member count and indices are.                                           *)
C30_MixedTotalsOnlyMismatch ==
    SplitGroupsFormed =>
        LET gids == GroupIds(Chunks, Len(Chunks))
        IN  \A k \in 1..Len(gids) :
                Cardinality(SplitTotals(GroupMembers(gids[k]))) > 1
                    => OnlyTotalMismatchReported(gids[k])

(* the findings of C30 for the groups whose split_total values can all be  *)
(* put into a set: there a group with several totals has its one finding   *)
C30_MixedHashableTotalsOnlyMismatch ==
    SplitGroupsFormed =>
        LET gids == GroupIds(Chunks, Len(Chunks))
        IN  \A k \in 1..Len(gids) :
                (/\ Cardinality(SplitTotals(GroupMembers(gids[k]))) > 1
                 /\ \A j \in 1..k : ~SplitGroupRaises(GroupMembers(gids[j])))
                    => OnlyTotalMismatchReported(gids[k])

(* a group with two totals, too many members and an index out of range got *)
(* its split_total_mismatch finding and no other split finding              *)
C30_MixedTotalsReported ==
    /\ returned = "report"
    /\ Len(Chunks) = 4
    /\ Len(GroupMembers(JStr("g1"))) = 4
    /\ Cardinality(SplitTotals(GroupMembers(JStr("g1")))) = 2
    /\ OnlyTotalMismatchReported(JStr("g1"))
    /\ Len(report.structure_errors) = 1

====
